---- MODULE Spec2Model ----
(***************************************************************************)
(* Heatseeker: the level generator, the heat calculator, the move          *)
(* validator (src/src/gameLogic.ts) and the game state machine of the      *)
(* Heatseeker component (src/src/App.tsx).                                 *)
(*                                                                         *)
(* The component's state is the tuple of its useState cells.  One action   *)
(* is one event handler together with the render and the effects that its  *)
(* state updates trigger: the handlers are synchronous, React applies the  *)
(* updates of one handler as one batch, and the effect of lines 202-206    *)
(* (initializeLevel when initializeLevel or gameStarted changed) runs      *)
(* right after the commit of that batch.                                   *)
(*                                                                         *)
(* The leaderboard coordination of the component and of the useLeaderboard *)
(* hook (src/src/hooks/useLeaderboard.ts) is part of the same handlers.    *)
(* An async handler is one action up to its first pending await and one    *)
(* action per continuation; a request awaiting its response is an element  *)
(* of inFlight, carrying the closure of the function that awaits it.  The  *)
(* effect of lines 260-308 runs in the commit of every step that changes   *)
(* one of its dependencies.  Spec is the build without Supabase            *)
(* credentials (isLeaderboardConfigured false), SpecLb the build with.     *)
(* SpecLb takes the fetch issued at mount to be answered while no outcome  *)
(* is pending; SpecLbLate lets it be answered at any time, on runs of at   *)
(* most MaxLateMoves moves, and SpecLbLateFair adds that a recordProgress  *)
(* awaited by the effect is answered.                                      *)
(*                                                                         *)
(* SpecHook is the useLeaderboard hook rendered on its own, as its tests   *)
(* render it, against the table game_sessions and the edge functions of    *)
(* src/supabase/functions: its callers await each call before the next,    *)
(* and the three attempts of fetchWithRetry are one request that is        *)
(* answered or fails as a whole.  SpecRetry follows one invocation of      *)
(* fetchWithRetry statement by statement, SpecModal the name modal         *)
(* (src/src/components/LeaderboardModal.tsx) rendered on its own, and      *)
(* SpecServer the invocations of the edge function update-score for one    *)
(* session, each as its select and its update.                             *)
(*                                                                         *)
(* The catalogue of gameLogic.ts has grids of 10x10 up to 100x100; the     *)
(* model keeps its shape on grids small enough to enumerate (see levels).  *)
(***************************************************************************)
EXTENDS Integers, Sequences, FiniteSets, Bags, TLC

VARIABLES
    currentLevel,          \* App.tsx:32
    playerPos,             \* App.tsx:33
    lavaSquares,           \* App.tsx:34
    visitedSquares,        \* App.tsx:35
    gameState,             \* App.tsx:36
    moves,                 \* App.tsx:37
    totalMoves,            \* App.tsx:38
    gameStarted,           \* App.tsx:39
    highestLevelAchieved,  \* App.tsx:40
    lastOp,                \* the handler that ran last and the return it took
    gen,                   \* locals of a running generateLavaSquares
    call,                  \* one invocation of a function followed on its own
    isLeaderboardConfigured,  \* services/leaderboard.ts:39
    startingGame,             \* App.tsx:59
    pendingOutcome,           \* App.tsx:60
    isEvaluatingLeaderboard,  \* App.tsx:61
    showNameModal,            \* App.tsx:62
    isSavingName,             \* App.tsx:64
    namePromptAcknowledged,   \* App.tsx:65
    sessionId,                \* useLeaderboard.ts:85
    hasSubmittedName,         \* useLeaderboard.ts:86
    lastReported,             \* useLeaderboard.ts:92, lastReportedRef.current
    inFlight,                 \* bag of the leaderboard requests awaiting a response
    startSessionCalls,        \* startSession invocations since the menu was entered
    hook,                     \* the useLeaderboard hook rendered on its own
    server,                   \* the table game_sessions and the clock of its trigger
    modal                     \* the LeaderboardModal component rendered on its own

gameVars == <<currentLevel, playerPos, lavaSquares, visitedSquares, gameState,
              moves, totalMoves, gameStarted, highestLevelAchieved>>

\* The leaderboard coordination state.
lbVars == <<isLeaderboardConfigured, startingGame, pendingOutcome,
            isEvaluatingLeaderboard, showNameModal, isSavingName,
            namePromptAcknowledged, sessionId, hasSubmittedName, lastReported,
            inFlight, startSessionCalls>>

vars == <<currentLevel, playerPos, lavaSquares, visitedSquares, gameState,
          moves, totalMoves, gameStarted, highestLevelAchieved, lastOp, gen, call,
          isLeaderboardConfigured, startingGame, pendingOutcome,
          isEvaluatingLeaderboard, showNameModal, isSavingName,
          namePromptAcknowledged, sessionId, hasSubmittedName, lastReported,
          inFlight, startSessionCalls, hook, server, modal>>

(***************************************************************************)
(* Bounds of the model.                                                    *)
(***************************************************************************)
\* Position-changing moves of one run that the model follows.
MaxTotalMoves == 9

\* isValidMove is applied on grids of side 1..MaxGridSize.
MaxGridSize == 4

\* calculateHeat is applied at the positions (0..MaxHeatCoord)^2.
MaxHeatCoord == 2

\* Session ids the server issues: startSession answers null once they are used.
MaxSessions == 1

\* Leaderboard requests awaiting a response at the same time.
MaxInFlight == 2

\* getHeatColor is applied to the counts -MaxColorArg .. MaxColorArg.
MaxColorArg == 30

\* Moves of one run when the mount-time fetch may be answered at any time.
MaxLateMoves == 3

\* Calls of the hook's functions that the model follows on the hook alone.
MaxHookCalls == 3

\* Sessions the start-session function opens for the hook alone.
MaxHookSessions == 2

\* Rows of other sessions in game_sessions when the hook mounts.
MaxSeedRows == 13

\* Characters the name input accepts: its maxLength, 16 in the source.
MaxNameLength == 3

\* fetchWithRetry is called with maxRetries in 0 .. MaxRetriesArg.
MaxRetriesArg == 4

\* update-score requests that the model follows for one session.
MaxScoreRequests == 3

(***************************************************************************)
(* gameLogic.ts                                                            *)
(***************************************************************************)
\* The level table, scaled: same record shape, the first two levels of one
\* size and a larger last one, sizes non-decreasing, and
\* 0 < minLava <= maxLava < size*size - 2 as in each of the ten entries.
levels == << [size |-> 2, minLava |-> 1, maxLava |-> 1],
             [size |-> 2, minLava |-> 1, maxLava |-> 1],
             [size |-> 3, minLava |-> 1, maxLava |-> 3] >>

\* The level table as shipped.
levelsShipped == << [size |-> 10,  minLava |-> 1,    maxLava |-> 5],
                    [size |-> 10,  minLava |-> 5,    maxLava |-> 15],
                    [size |-> 20,  minLava |-> 20,   maxLava |-> 40],
                    [size |-> 32,  minLava |-> 40,   maxLava |-> 100],
                    [size |-> 40,  minLava |-> 100,  maxLava |-> 200],
                    [size |-> 50,  minLava |-> 250,  maxLava |-> 750],
                    [size |-> 64,  minLava |-> 400,  maxLava |-> 800],
                    [size |-> 64,  minLava |-> 800,  maxLava |-> 1600],
                    [size |-> 100, minLava |-> 1600, maxLava |-> 2400],
                    [size |-> 100, minLava |-> 2000, maxLava |-> 5000] >>

\* levels[i] of the source, whose indices start at 0.
Level(i) == levels[i + 1]

FINAL_LEVEL_INDEX == Len(levels) - 1

Max(a, b) == IF a >= b THEN a ELSE b
Min(a, b) == IF a <= b THEN a ELSE b

\* The template literal `${x},${y}`.
Key(x, y) == ToString(x) \o "," \o ToString(y)

\* The two nested for loops of calculateHeat, dx outer, dy inner.
RECURSIVE HeatLoop(_, _, _, _, _, _)
HeatLoop(x, y, lavaSet, dx, dy, count) ==
    IF dx > 1 THEN count
    ELSE IF dy > 1 THEN HeatLoop(x, y, lavaSet, dx + 1, -1, count)
    ELSE IF dx = 0 /\ dy = 0 THEN HeatLoop(x, y, lavaSet, dx, dy + 1, count)
    ELSE HeatLoop(x, y, lavaSet, dx, dy + 1,
                  IF Key(x + dx, y + dy) \in lavaSet THEN count + 1 ELSE count)

\* calculateHeat without the `continue` on dx = dy = 0.
calculateHeat_countsSelf(x, y, lavaSet) ==
    HeatLoop(x, y, lavaSet, -1, -1, 0) + (IF Key(x, y) \in lavaSet THEN 1 ELSE 0)

calculateHeat(x, y, lavaSet) == HeatLoop(x, y, lavaSet, -1, -1, 0)

\* Math.floor(Math.random() * n): the values it can take.
RandomInt(n) == 0 .. (n - 1)

safeSquares(level) == { Key(0, level.size - 1), Key(level.size - 1, 0) }

\* One iteration of the while loop of generateLavaSquares on the draws x, y.
LoopIteration_noSafeCheck(level, newLavaSquares, x, y) ==
    IF Key(x, y) \notin newLavaSquares
    THEN newLavaSquares \cup {Key(x, y)}
    ELSE newLavaSquares

\* The test of line 44 with its second negation lost: only a key already in
\* the set passes, and adding it changes nothing.
LoopIteration_addsKnownOnly(level, newLavaSquares, x, y) ==
    IF Key(x, y) \notin safeSquares(level) /\ Key(x, y) \in newLavaSquares
    THEN newLavaSquares \cup {Key(x, y)}
    ELSE newLavaSquares

LoopIteration(level, newLavaSquares, x, y) ==
    IF Key(x, y) \notin safeSquares(level) /\ Key(x, y) \notin newLavaSquares
    THEN newLavaSquares \cup {Key(x, y)}
    ELSE newLavaSquares

\* The sets the while loop can leave with, started from newLavaSquares.  An
\* iteration that adds nothing re-enters the loop in the same state.
RECURSIVE LoopOutcomes(_, _, _)
LoopOutcomes(level, lavaCount, newLavaSquares) ==
    IF ~(Cardinality(newLavaSquares) < lavaCount) THEN {newLavaSquares}
    ELSE UNION { LoopOutcomes(level, lavaCount, next) :
                 next \in { LoopIteration(level, newLavaSquares, x, y) :
                            x \in RandomInt(level.size), y \in RandomInt(level.size) }
                          \ {newLavaSquares} }

\* The values generateLavaSquares(currentLevel) can return.
generateLavaSquares(levelIndex) ==
    LET level == Level(levelIndex)
    IN  UNION { LoopOutcomes(level, r + level.minLava, {}) :
                r \in RandomInt(level.maxLava - level.minLava + 1) }

Directions == {"up", "down", "left", "right"}

\* Direction values a caller can pass: the four of the type and one other.
DirectionValues == Directions \cup {"invalid"}

isValidMove_noClamp(currentPos, direction, gridSize) ==
    IF direction \notin Directions
    THEN [valid |-> FALSE, newPos |-> currentPos]
    ELSE LET newX == CASE direction = "left"  -> currentPos.x - 1
                       [] direction = "right" -> currentPos.x + 1
                       [] OTHER -> currentPos.x
             newY == CASE direction = "up"   -> currentPos.y - 1
                       [] direction = "down" -> currentPos.y + 1
                       [] OTHER -> currentPos.y
         IN  [valid |-> (newX # currentPos.x \/ newY # currentPos.y),
              newPos |-> [x |-> newX, y |-> newY]]

isValidMove(currentPos, direction, gridSize) ==
    IF direction \notin Directions
    THEN [valid |-> FALSE, newPos |-> currentPos]
    ELSE LET newX == CASE direction = "left"  -> Max(0, currentPos.x - 1)
                       [] direction = "right" -> Min(gridSize - 1, currentPos.x + 1)
                       [] OTHER -> currentPos.x
             newY == CASE direction = "up"   -> Max(0, currentPos.y - 1)
                       [] direction = "down" -> Min(gridSize - 1, currentPos.y + 1)
                       [] OTHER -> currentPos.y
         IN  [valid |-> (newX # currentPos.x \/ newY # currentPos.y),
              newPos |-> [x |-> newX, y |-> newY]]

isTargetPosition(pos, gridSize) == pos.x = gridSize - 1 /\ pos.y = 0

\* The switch of getHeatColor: the class of each case and the default.
getHeatColor(adjacentLavaCount) ==
    CASE adjacentLavaCount = 0 -> "bg-gray-300"
      [] adjacentLavaCount = 1 -> "bg-yellow-200"
      [] adjacentLavaCount = 2 -> "bg-yellow-300"
      [] adjacentLavaCount = 3 -> "bg-yellow-400"
      [] adjacentLavaCount = 4 -> "bg-yellow-500"
      [] adjacentLavaCount = 5 -> "bg-orange-400"
      [] adjacentLavaCount = 6 -> "bg-orange-500"
      [] adjacentLavaCount = 7 -> "bg-red-400"
      [] adjacentLavaCount = 8 -> "bg-pink-400"
      [] OTHER -> "bg-white"

(***************************************************************************)
(* App.tsx: the game state machine                                         *)
(***************************************************************************)
\* new Map(prev).set(key, value)
MapSet(prev, key, value) ==
    [k \in (DOMAIN prev) \cup {key} |-> IF k = key THEN value ELSE prev[k]]

\* new Map()
EmptyMap == [k \in {} |-> 0]

Op(op, dir, ret) == [op |-> op, dir |-> dir, ret |-> ret]

isFinalLevel == currentLevel = FINAL_LEVEL_INDEX

showFinalCelebration == isFinalLevel /\ gameState \in {"won", "lost"}

\* getSquareColor with a class for every hazard cell, visited or not.
getSquareColor_revealsLava(x, y, size, visitedMap, lavaSet) ==
    LET key == Key(x, y)
        isTarget == x = size - 1 /\ y = 0
        isVisited == key \in DOMAIN visitedMap
        isLava == key \in lavaSet
    IN  IF isTarget THEN "bg-green-500"
        ELSE IF isLava THEN "bg-black"
        ELSE IF isVisited THEN getHeatColor(visitedMap[key])
        ELSE "bg-gray-400"

\* getSquareColor(x, y, size) in a render whose visitedSquares and
\* lavaSquares are visitedMap and lavaSet.  isPlayer is computed and not used.
getSquareColor(x, y, size, visitedMap, lavaSet) ==
    LET key == Key(x, y)
        isTarget == x = size - 1 /\ y = 0
        isVisited == key \in DOMAIN visitedMap
        isLava == key \in lavaSet
    IN  IF isTarget THEN "bg-green-500"
        ELSE IF isLava /\ isVisited THEN "bg-black"
        ELSE IF isVisited THEN getHeatColor(visitedMap[key])
        ELSE "bg-gray-400"

\* countAdjacentLava closes over the lavaSquares of the current render.
countAdjacentLava(x, y) == calculateHeat(x, y, lavaSquares)

(***************************************************************************)
(* App.tsx and hooks/useLeaderboard.ts: leaderboard coordination           *)
(***************************************************************************)
\* pendingOutcome null.
NoOutcome == [levelIndex |-> -1, status |-> "none"]

\* sessionId null; the ids the server issues are 1, 2, ...
NoSession == 0

\* lastReportedRef.current: null, or the score of the last recordProgress
\* answered (kept as the fact that there is one).
NoReport == "null"
SomeReport == "reported"

\* The size of the leaderboard: a rank prompts for a name when it is <= 10.
TopTenSize == 10

\* The requests awaiting a response, each with the function awaiting it.
InitialLoadCall == [fn |-> "fetchLeaderboard", by |-> "loadInitialLeaderboard"]
StartSessionCall == [fn |-> "startSession", by |-> "handleStartGame"]
RefreshCall == [fn |-> "fetchLeaderboard", by |-> "handleStartGame"]

\* recordProgress as called by evaluateOutcome for the outcome pending, with
\* the values evaluateOutcome closes over: those of the render being
\* committed by this step.
EvaluateOutcomeCall(pending) ==
    LET isFinal == pending.levelIndex = FINAL_LEVEL_INDEX
        levelReached == IF pending.status = "won" THEN pending.levelIndex + 1
                        ELSE IF isFinal THEN Len(levels)
                        ELSE highestLevelAchieved'
    IN  [fn |-> "recordProgress", by |-> "evaluateOutcome",
         sessionId |-> sessionId',
         levelReached |-> levelReached,
         totalMoves |-> totalMoves',
         isFinal |-> isFinal,
         namePromptAcknowledged |-> namePromptAcknowledged',
         hasLeaderboardName |-> hasSubmittedName',
         showNameModal |-> showNameModal']

\* recordProgress as called by submitIdentity with the last reported score.
SubmitIdentityCall ==
    [fn |-> "recordProgress", by |-> "handleNameSubmit",
     sessionId |-> sessionId]

AddCall(flights, c) == flights (+) SetToBag({c})
RemoveCall(flights, c) == flights (-) SetToBag({c})

\* A dependency of the effect of lines 260-308 differs between the render
\* before this step and the render it commits.  recordProgress is a new
\* function whenever sessionId or topTenCache was set (cacheSet).
outcomeDepsChanged(pending, cacheSet) ==
    \/ pending # pendingOutcome
    \/ cacheSet
    \/ sessionId' # sessionId
    \/ hasSubmittedName' # hasSubmittedName
    \/ namePromptAcknowledged' # namePromptAcknowledged
    \/ showNameModal' # showNameModal
    \/ totalMoves' # totalMoves
    \/ highestLevelAchieved' # highestLevelAchieved

\* The commit of a step and the effect of lines 260-308 after it.  pending,
\* evaluating and flights are pendingOutcome, isEvaluatingLeaderboard and
\* inFlight as the handler left them; the other dependencies are read primed.
outcomeEffect(pending, evaluating, flights, cacheSet) ==
    IF pending = NoOutcome \/ ~outcomeDepsChanged(pending, cacheSet)
    THEN \* line 261, or the effect does not run
         /\ pendingOutcome' = pending
         /\ isEvaluatingLeaderboard' = evaluating
         /\ inFlight' = flights
    ELSE IF ~isLeaderboardConfigured \/ sessionId' = NoSession
    THEN \* lines 262-265
         /\ pendingOutcome' = NoOutcome
         /\ isEvaluatingLeaderboard' = evaluating
         /\ inFlight' = flights
    ELSE IF pending.status = "lost" /\ pending.levelIndex # FINAL_LEVEL_INDEX
    THEN \* lines 268-271
         /\ pendingOutcome' = NoOutcome
         /\ isEvaluatingLeaderboard' = evaluating
         /\ inFlight' = flights
    ELSE \* lines 273-286, up to the await
         /\ BagCardinality(flights) < MaxInFlight
         /\ pendingOutcome' = pending
         /\ isEvaluatingLeaderboard' = TRUE
         /\ inFlight' = AddCall(flights, EvaluateOutcomeCall(pending))

\* movePlayer leaving an outcome pending after every move that changed the
\* position, whatever cell it entered.
outcomeOfMove_everyMove ==
    IF lastOp'.ret \in {"won", "lost", "heat"}
    THEN [levelIndex |-> currentLevel,
          status |-> IF lastOp'.ret = "lost" THEN "lost" ELSE "won"]
    ELSE pendingOutcome

\* The outcome movePlayer leaves pending: lines 157 and 165.
outcomeOfMove ==
    IF lastOp'.ret = "won"
    THEN [levelIndex |-> currentLevel, status |-> "won"]
    ELSE IF lastOp'.ret = "lost" /\ currentLevel = FINAL_LEVEL_INDEX
    THEN [levelIndex |-> currentLevel, status |-> "lost"]
    ELSE pendingOutcome

\* The leaderboard state a step of the game leaves alone, but for the three
\* variables outcomeEffect sets.
lbFrame ==
    UNCHANGED <<isLeaderboardConfigured, startingGame, showNameModal, isSavingName,
                namePromptAcknowledged, sessionId, hasSubmittedName, lastReported,
                startSessionCalls>>

\* initializeLevel with the starting heat taken from the hazard set of the
\* render it closes over instead of the set it has just generated.
initializeLevel_staleHeat(levelIndex, newLavaSquares) ==
    LET level == Level(levelIndex)
        startX == 0
        startY == level.size - 1
        startingHeat == calculateHeat(startX, startY, lavaSquares)
    IN  /\ lavaSquares' = newLavaSquares
        /\ playerPos' = [x |-> startX, y |-> startY]
        /\ visitedSquares' = MapSet(EmptyMap, Key(startX, startY), startingHeat)
        /\ gameState' = "playing"
        /\ moves' = 0

\* initializeLevel that adds the start entry to the previous map.
initializeLevel_keepsVisited(levelIndex, newLavaSquares) ==
    LET level == Level(levelIndex)
        startX == 0
        startY == level.size - 1
        startingHeat == calculateHeat(startX, startY, newLavaSquares)
    IN  /\ lavaSquares' = newLavaSquares
        /\ playerPos' = [x |-> startX, y |-> startY]
        /\ visitedSquares' = MapSet(visitedSquares, Key(startX, startY), startingHeat)
        /\ gameState' = "playing"
        /\ moves' = 0

\* initializeLevel as run in a render whose currentLevel is levelIndex, with
\* newLavaSquares the set its call of generateLavaSquares returned.
initializeLevel(levelIndex, newLavaSquares) ==
    LET level == Level(levelIndex)
        startX == 0
        startY == level.size - 1
        startingHeat == calculateHeat(startX, startY, newLavaSquares)
    IN  /\ lavaSquares' = newLavaSquares
        /\ playerPos' = [x |-> startX, y |-> startY]
        /\ visitedSquares' = MapSet(EmptyMap, Key(startX, startY), startingHeat)
        /\ gameState' = "playing"
        /\ moves' = 0

\* The switch of movePlayer without Math.max and Math.min.
moveDestination_noClamp(direction) ==
    [x |-> CASE direction = "left"  -> playerPos.x - 1
             [] direction = "right" -> playerPos.x + 1
             [] OTHER -> playerPos.x,
     y |-> CASE direction = "up"   -> playerPos.y - 1
             [] direction = "down" -> playerPos.y + 1
             [] OTHER -> playerPos.y]

\* The switch of movePlayer: the clamped destination (newX, newY).
moveDestination(direction) ==
    LET level == Level(currentLevel)
    IN  [x |-> CASE direction = "left"  -> Max(0, playerPos.x - 1)
                 [] direction = "right" -> Min(level.size - 1, playerPos.x + 1)
                 [] OTHER -> playerPos.x,
         y |-> CASE direction = "up"   -> Max(0, playerPos.y - 1)
                 [] direction = "down" -> Min(level.size - 1, playerPos.y + 1)
                 [] OTHER -> playerPos.y]

\* A return of movePlayer before any state update (lines 122 and 143).
moveIgnored(direction, ret) ==
    /\ lastOp' = Op("movePlayer", direction, ret)
    /\ UNCHANGED gameVars

\* Lines 151-159 with a heat written on the hazard cell instead of -1.
stepOntoLava_writesHeat(direction, newKey) ==
    /\ visitedSquares' = MapSet(visitedSquares, newKey, 0)
    /\ gameState' = "lost"
    /\ highestLevelAchieved' =
           IF currentLevel = FINAL_LEVEL_INDEX THEN Len(levels) ELSE highestLevelAchieved
    /\ lastOp' = Op("movePlayer", direction, "lost")

\* Lines 151-159 without the test of line 154: every loss sets the highest
\* level to the catalogue length.
stepOntoLava_anyLossIsFinal(direction, newKey) ==
    /\ visitedSquares' = MapSet(visitedSquares, newKey, -1)
    /\ gameState' = "lost"
    /\ highestLevelAchieved' = Len(levels)
    /\ lastOp' = Op("movePlayer", direction, "lost")

\* Lines 151-159 without setGameState('lost'): the sentinel is written and
\* the level goes on.
stepOntoLava_keepsPlaying(direction, newKey) ==
    /\ visitedSquares' = MapSet(visitedSquares, newKey, -1)
    /\ highestLevelAchieved' =
           IF currentLevel = FINAL_LEVEL_INDEX THEN Len(levels) ELSE highestLevelAchieved
    /\ lastOp' = Op("movePlayer", direction, "lost")
    /\ UNCHANGED gameState

\* Lines 151-159: the destination is a hazard.
stepOntoLava(direction, newKey) ==
    /\ visitedSquares' = MapSet(visitedSquares, newKey, -1)
    /\ gameState' = "lost"
    /\ highestLevelAchieved' =
           IF currentLevel = FINAL_LEVEL_INDEX THEN Len(levels) ELSE highestLevelAchieved
    /\ lastOp' = Op("movePlayer", direction, "lost")

\* Lines 161-166 without the update of line 164.
stepOntoTarget_keepsHighest(direction) ==
    /\ gameState' = "won"
    /\ lastOp' = Op("movePlayer", direction, "won")
    /\ UNCHANGED <<visitedSquares, highestLevelAchieved>>

\* Lines 161-166: the destination is the target.
stepOntoTarget(direction) ==
    /\ gameState' = "won"
    /\ highestLevelAchieved' = Max(highestLevelAchieved, currentLevel + 1)
    /\ lastOp' = Op("movePlayer", direction, "won")
    /\ UNCHANGED visitedSquares

\* Lines 168-169 with the entry set on a new Map instead of a copy of prev.
stepOntoSafe_dropsHistory(direction, newX, newY, newKey) ==
    /\ visitedSquares' = MapSet(EmptyMap, newKey, countAdjacentLava(newX, newY))
    /\ lastOp' = Op("movePlayer", direction, "heat")
    /\ UNCHANGED <<gameState, highestLevelAchieved>>

\* A move onto a safe cell without the setVisitedSquares of line 169.
stepOntoSafe_recordsNothing(direction, newX, newY, newKey) ==
    /\ visitedSquares' = visitedSquares
    /\ lastOp' = Op("movePlayer", direction, "heat")
    /\ UNCHANGED <<gameState, highestLevelAchieved>>

\* Lines 168-169: a safe cell, its heat is recorded.
stepOntoSafe(direction, newX, newY, newKey) ==
    /\ visitedSquares' = MapSet(visitedSquares, newKey, countAdjacentLava(newX, newY))
    /\ lastOp' = Op("movePlayer", direction, "heat")
    /\ UNCHANGED <<gameState, highestLevelAchieved>>

\* Lines 161-166 tested one column early.
isTargetCell_offByOne(newX, newY) ==
    newX = Level(currentLevel).size - 2 /\ newY = 0

\* The test of line 161.
isTargetCell(newX, newY) ==
    newX = Level(currentLevel).size - 1 /\ newY = 0

\* Lines 145-169 without setTotalMoves (line 147).
moveApplied_keepsTotal(direction, newX, newY) ==
    LET newKey == Key(newX, newY)
    IN  /\ totalMoves < MaxTotalMoves
        /\ playerPos' = [x |-> newX, y |-> newY]
        /\ moves' = moves + 1
        /\ totalMoves' = totalMoves
        /\ UNCHANGED <<currentLevel, lavaSquares, gameStarted>>
        /\ IF newKey \in lavaSquares THEN stepOntoLava(direction, newKey)
           ELSE IF isTargetCell(newX, newY) THEN stepOntoTarget(direction)
           ELSE stepOntoSafe(direction, newX, newY, newKey)

\* Lines 145-169: the position changed.
moveApplied(direction, newX, newY) ==
    LET newKey == Key(newX, newY)
    IN  /\ totalMoves < MaxTotalMoves
        /\ playerPos' = [x |-> newX, y |-> newY]
        /\ moves' = moves + 1
        /\ totalMoves' = totalMoves + 1
        /\ UNCHANGED <<currentLevel, lavaSquares, gameStarted>>
        /\ IF newKey \in lavaSquares THEN stepOntoLava(direction, newKey)
           ELSE IF isTargetCell(newX, newY) THEN stepOntoTarget(direction)
           ELSE stepOntoSafe(direction, newX, newY, newKey)

\* Lines 124-169 without the return of line 143.
moveWhilePlaying_countsAbsorbed(direction) ==
    LET dest == moveDestination(direction)
    IN  moveApplied(direction, dest.x, dest.y)

\* Lines 124-169: movePlayer past the guard of line 122.
moveWhilePlaying(direction) ==
    LET dest == moveDestination(direction)
    IN  IF dest.x = playerPos.x /\ dest.y = playerPos.y
        THEN moveIgnored(direction, "noMove")
        ELSE moveApplied(direction, dest.x, dest.y)

\* movePlayer without the guard of line 122.
movePlayer_noStatusGuard(direction) ==
    /\ gameStarted
    /\ moveWhilePlaying(direction)
    /\ lbFrame
    /\ outcomeEffect(outcomeOfMove, isEvaluatingLeaderboard, inFlight, FALSE)
    /\ UNCHANGED <<gen, call, hook, server, modal>>

\* movePlayer(direction), called by the keydown listener (which returns
\* unless gameStarted) or by a move button (rendered once the game started).
movePlayer(direction) ==
    /\ gameStarted
    /\ IF gameState # "playing"
       THEN moveIgnored(direction, "notPlaying")
       ELSE moveWhilePlaying(direction)
    /\ lbFrame
    /\ outcomeEffect(outcomeOfMove, isEvaluatingLeaderboard, inFlight, FALSE)
    /\ UNCHANGED <<gen, call, hook, server, modal>>

\* Lines 216-227 of handleStartGame and, when gameStarted or currentLevel
\* changed, the effect of lines 202-206, which initializes level 0.
startGameSetters ==
    /\ currentLevel' = 0
    /\ highestLevelAchieved' = 0
    /\ totalMoves' = 0
    /\ gameStarted' = TRUE
    /\ IF ~gameStarted \/ currentLevel # 0
       THEN \E newLavaSquares \in generateLavaSquares(0) :
                initializeLevel(0, newLavaSquares)
       ELSE /\ moves' = 0
            /\ visitedSquares' = EmptyMap
            /\ lavaSquares' = {}
            /\ gameState' = "playing"
            /\ UNCHANGED playerPos
    /\ namePromptAcknowledged' = FALSE
    /\ showNameModal' = FALSE

\* handleStartGame without the return of line 209.
handleStartGame_noStartingGuard ==
    /\ ~gameStarted
    /\ IF isLeaderboardConfigured
       THEN /\ BagCardinality(inFlight) < MaxInFlight
            /\ startingGame' = TRUE
            /\ inFlight' = AddCall(inFlight, StartSessionCall)
            /\ startSessionCalls' = startSessionCalls + 1
            /\ lastOp' = Op("handleStartGame", "-", "await")
            /\ UNCHANGED <<gameVars, isLeaderboardConfigured, pendingOutcome,
                           isEvaluatingLeaderboard, showNameModal, isSavingName,
                           namePromptAcknowledged, sessionId, hasSubmittedName,
                           lastReported>>
       ELSE /\ startGameSetters
            /\ lastOp' = Op("handleStartGame", "-", "-")
            /\ UNCHANGED <<isLeaderboardConfigured, startingGame, isSavingName,
                           sessionId, hasSubmittedName, lastReported,
                           startSessionCalls>>
            /\ outcomeEffect(NoOutcome, isEvaluatingLeaderboard, inFlight, FALSE)
    /\ UNCHANGED <<gen, call, hook, server, modal>>

\* Start Game (rendered while ~gameStarted): handleStartGame.  Triggered
\* while startingGame (the button is disabled then) it returns at line 209.
\* Without credentials no await is reached and the handler
\* runs to its end, then the effect of lines 202-206 initializes level 0; with
\* credentials it runs up to the await of startNewSession, whose startSession
\* request is then in flight.
handleStartGame ==
    /\ ~gameStarted
    /\ IF startingGame
       THEN \* line 209
            /\ lastOp' = Op("handleStartGame", "-", "starting")
            /\ UNCHANGED <<gameVars, lbVars>>
       ELSE IF isLeaderboardConfigured
       THEN /\ BagCardinality(inFlight) < MaxInFlight
            /\ startingGame' = TRUE
            /\ inFlight' = AddCall(inFlight, StartSessionCall)
            /\ startSessionCalls' = startSessionCalls + 1
            /\ lastOp' = Op("handleStartGame", "-", "await")
            /\ UNCHANGED <<gameVars, isLeaderboardConfigured, pendingOutcome,
                           isEvaluatingLeaderboard, showNameModal, isSavingName,
                           namePromptAcknowledged, sessionId, hasSubmittedName,
                           lastReported>>
       ELSE /\ startGameSetters
            /\ lastOp' = Op("handleStartGame", "-", "-")
            /\ UNCHANGED <<isLeaderboardConfigured, startingGame, isSavingName,
                           sessionId, hasSubmittedName, lastReported,
                           startSessionCalls>>
            /\ outcomeEffect(NoOutcome, isEvaluatingLeaderboard, inFlight, FALSE)
    /\ UNCHANGED <<gen, call, hook, server, modal>>

\* startSession answered: lines 152-159 of startNewSession (a new id replaces
\* sessionId, null leaves it), then handleStartGame goes on to the await of
\* refreshLeaderboard (line 214), whose fetchLeaderboard is then in flight.
startNewSession ==
    /\ CopiesIn(StartSessionCall, inFlight) > 0
    /\ \E id \in {NoSession} \cup
                 (IF sessionId < MaxSessions THEN {sessionId + 1} ELSE {}) :
          /\ IF id # NoSession
             THEN /\ sessionId' = id
                  /\ hasSubmittedName' = FALSE
                  /\ lastReported' = NoReport
             ELSE UNCHANGED <<sessionId, hasSubmittedName, lastReported>>
          /\ lastOp' = Op("startNewSession", "-", "-")
          /\ UNCHANGED <<gameVars, gen, call, hook, server, modal, isLeaderboardConfigured, startingGame,
                         showNameModal, isSavingName, namePromptAcknowledged,
                         startSessionCalls>>
          /\ outcomeEffect(pendingOutcome, isEvaluatingLeaderboard,
                           AddCall(RemoveCall(inFlight, StartSessionCall), RefreshCall),
                           id # NoSession)

\* fetchLeaderboard of refreshLeaderboard answered: applyLeaderboard (line
\* 260 of the hook), then lines 216-231 of handleStartGame and the effect of
\* lines 202-206.
refreshLeaderboard ==
    /\ CopiesIn(RefreshCall, inFlight) > 0
    /\ startGameSetters
    /\ startingGame' = FALSE
    /\ lastOp' = Op("handleStartGame", "-", "-")
    /\ UNCHANGED <<gen, call, hook, server, modal, isLeaderboardConfigured, isSavingName, sessionId,
                   hasSubmittedName, lastReported, startSessionCalls>>
    /\ outcomeEffect(NoOutcome, isEvaluatingLeaderboard,
                     RemoveCall(inFlight, RefreshCall), TRUE)

\* fetchLeaderboard of the mount effect answered: applyLeaderboard sets
\* topTenCache (hook lines 130-147).  The answer is taken to arrive while no
\* outcome is pending: arriving during an evaluation it would make
\* recordProgress a new function and run the effect of lines 260-308 again
\* for the same outcome, a second evaluateOutcome that this development
\* does not follow.
loadInitialLeaderboard ==
    /\ CopiesIn(InitialLoadCall, inFlight) > 0
    /\ pendingOutcome = NoOutcome
    /\ lastOp' = Op("loadInitialLeaderboard", "-", "-")
    /\ UNCHANGED <<gameVars, gen, call, hook, server, modal>>
    /\ lbFrame
    /\ outcomeEffect(pendingOutcome, isEvaluatingLeaderboard,
                     RemoveCall(inFlight, InitialLoadCall), TRUE)

\* fetchLeaderboard of the mount effect answered while an outcome is being
\* evaluated: topTenCache is set, recordProgress is a new function, and the
\* effect of lines 260-308 runs again for the outcome still pending, which
\* calls recordProgress a second time.
loadInitialLeaderboardLate ==
    /\ CopiesIn(InitialLoadCall, inFlight) > 0
    /\ pendingOutcome # NoOutcome
    /\ lastOp' = Op("loadInitialLeaderboard", "-", "late")
    /\ UNCHANGED <<gameVars, gen, call, hook, server, modal>>
    /\ lbFrame
    /\ outcomeEffect(pendingOutcome, isEvaluatingLeaderboard,
                     RemoveCall(inFlight, InitialLoadCall), TRUE)

\* evaluateOutcome without the finally block of lines 301-304.
evaluateOutcome_noFinally ==
    \E c \in BagToSet(inFlight) :
        /\ c.by = "evaluateOutcome"
        /\ \E shouldPromptName \in BOOLEAN, rank \in {TopTenSize, TopTenSize + 1} :
              LET qualifiesForPrompt == shouldPromptName /\ ~c.namePromptAcknowledged
                  finalNeedsPrompt == /\ c.isFinal
                                      /\ rank <= TopTenSize
                                      /\ ~c.hasLeaderboardName
              IN  /\ showNameModal' =
                         IF (qualifiesForPrompt \/ finalNeedsPrompt) /\ ~c.showNameModal
                         THEN TRUE
                         ELSE showNameModal
                  /\ lastOp' = Op("evaluateOutcome", "-",
                                  IF shouldPromptName THEN "prompt" ELSE "noPrompt")
        /\ lastReported' = SomeReport
        /\ UNCHANGED <<gameVars, gen, call, hook, server, modal, isLeaderboardConfigured, startingGame,
                       isSavingName, namePromptAcknowledged, sessionId,
                       hasSubmittedName, startSessionCalls>>
        /\ outcomeEffect(pendingOutcome, isEvaluatingLeaderboard,
                         RemoveCall(inFlight, c), FALSE)

\* updateScore of a recordProgress awaited by evaluateOutcome answered: the
\* rest of recordProgress (hook lines 183-224) and lines 288-304 of
\* evaluateOutcome.  The answer decides shouldPromptName and the rank;
\* lastKnownRankRef is written with that rank before it is read (line 289).
evaluateOutcome ==
    \E c \in BagToSet(inFlight) :
        /\ c.by = "evaluateOutcome"
        /\ \E shouldPromptName \in BOOLEAN, rank \in {TopTenSize, TopTenSize + 1} :
              LET qualifiesForPrompt == shouldPromptName /\ ~c.namePromptAcknowledged
                  finalNeedsPrompt == /\ c.isFinal
                                      /\ rank <= TopTenSize
                                      /\ ~c.hasLeaderboardName
              IN  /\ showNameModal' =
                         IF (qualifiesForPrompt \/ finalNeedsPrompt) /\ ~c.showNameModal
                         THEN TRUE
                         ELSE showNameModal
                  /\ lastOp' = Op("evaluateOutcome", "-",
                                  IF shouldPromptName THEN "prompt" ELSE "noPrompt")
        /\ lastReported' = SomeReport
        /\ UNCHANGED <<gameVars, gen, call, hook, server, modal, isLeaderboardConfigured, startingGame,
                       isSavingName, namePromptAcknowledged, sessionId,
                       hasSubmittedName, startSessionCalls>>
        /\ outcomeEffect(NoOutcome, FALSE, RemoveCall(inFlight, c), TRUE)

\* Skip of the name modal (disabled while saving): lines 321-324.
handleNameSkip ==
    /\ gameStarted
    /\ showNameModal
    /\ ~isSavingName
    /\ showNameModal' = FALSE
    /\ namePromptAcknowledged' = TRUE
    /\ lastOp' = Op("handleNameSkip", "-", "-")
    /\ UNCHANGED <<gameVars, gen, call, hook, server, modal, isLeaderboardConfigured, startingGame,
                   isSavingName, sessionId, hasSubmittedName, lastReported,
                   startSessionCalls>>
    /\ outcomeEffect(pendingOutcome, isEvaluatingLeaderboard, inFlight, FALSE)

\* Save of the name modal (disabled while saving): lines 310-319.
\* submitIdentity returns null at once without a session or a reported score
\* (hook line 229); otherwise its recordProgress is in flight.
handleNameSubmit ==
    /\ gameStarted
    /\ showNameModal
    /\ ~isSavingName
    /\ UNCHANGED <<gameVars, gen, call, hook, server, modal, isLeaderboardConfigured, startingGame,
                   sessionId, hasSubmittedName, lastReported, startSessionCalls>>
    /\ IF sessionId = NoSession \/ lastReported = NoReport
       THEN /\ showNameModal' = FALSE
            /\ namePromptAcknowledged' = TRUE
            /\ lastOp' = Op("handleNameSubmit", "-", "-")
            /\ UNCHANGED isSavingName
            /\ outcomeEffect(pendingOutcome, isEvaluatingLeaderboard, inFlight, FALSE)
       ELSE /\ BagCardinality(inFlight) < MaxInFlight
            /\ isSavingName' = TRUE
            /\ inFlight' = AddCall(inFlight, SubmitIdentityCall)
            /\ lastOp' = Op("handleNameSubmit", "-", "await")
            /\ UNCHANGED <<showNameModal, namePromptAcknowledged, pendingOutcome,
                           isEvaluatingLeaderboard>>

\* updateScore of the recordProgress of submitIdentity answered: the rest of
\* recordProgress and submitIdentity (hook lines 183-244), then the finally
\* of handleNameSubmit.
submitIdentity ==
    \E c \in BagToSet(inFlight) :
        /\ c.by = "handleNameSubmit"
        /\ lastReported' = SomeReport
        /\ hasSubmittedName' = TRUE
        /\ isSavingName' = FALSE
        /\ showNameModal' = FALSE
        /\ namePromptAcknowledged' = TRUE
        /\ lastOp' = Op("handleNameSubmit", "-", "-")
        /\ UNCHANGED <<gameVars, gen, call, hook, server, modal, isLeaderboardConfigured, startingGame,
                       sessionId, startSessionCalls>>
        /\ outcomeEffect(pendingOutcome, isEvaluatingLeaderboard,
                         RemoveCall(inFlight, c), TRUE)

\* Next Level rendered on every level but the final one, whatever the status.
nextLevel_noWonGuard ==
    /\ gameStarted
    /\ ~isFinalLevel
    /\ ~(isEvaluatingLeaderboard \/ showNameModal)
    /\ IF currentLevel < FINAL_LEVEL_INDEX
       THEN /\ currentLevel' = currentLevel + 1
            /\ \E newLavaSquares \in generateLavaSquares(currentLevel + 1) :
                   initializeLevel(currentLevel + 1, newLavaSquares)
            /\ UNCHANGED <<totalMoves, gameStarted, highestLevelAchieved>>
       ELSE UNCHANGED gameVars
    /\ lastOp' = Op("nextLevel", "-", "-")
    /\ UNCHANGED <<gen, call, hook, server, modal, lbVars>>

\* Next Level enabled while the outcome is being evaluated or the name modal
\* is open.
nextLevel_notDisabled ==
    /\ gameStarted
    /\ gameState = "won"
    /\ ~showFinalCelebration
    /\ IF currentLevel < FINAL_LEVEL_INDEX
       THEN /\ currentLevel' = currentLevel + 1
            /\ \E newLavaSquares \in generateLavaSquares(currentLevel + 1) :
                   initializeLevel(currentLevel + 1, newLavaSquares)
            /\ UNCHANGED <<totalMoves, gameStarted, highestLevelAchieved>>
       ELSE UNCHANGED gameVars
    /\ lastOp' = Op("nextLevel", "-", "-")
    /\ UNCHANGED <<gen, call, hook, server, modal, lbVars>>

\* Next Level (rendered when won and not on the final level, disabled while
\* the outcome is being evaluated or the name modal is open): nextLevel, then
\* the effect of lines 202-206 initializes the new level.
nextLevel ==
    /\ gameStarted
    /\ gameState = "won"
    /\ ~showFinalCelebration
    /\ ~(isEvaluatingLeaderboard \/ showNameModal)
    /\ IF currentLevel < FINAL_LEVEL_INDEX
       THEN /\ currentLevel' = currentLevel + 1
            /\ \E newLavaSquares \in generateLavaSquares(currentLevel + 1) :
                   initializeLevel(currentLevel + 1, newLavaSquares)
            /\ UNCHANGED <<totalMoves, gameStarted, highestLevelAchieved>>
       ELSE UNCHANGED gameVars
    /\ lastOp' = Op("nextLevel", "-", "-")
    /\ UNCHANGED <<gen, call, hook, server, modal, lbVars>>

\* Retry Level that also clears the run's move total.
restartLevel_resetsTotal ==
    /\ gameStarted
    /\ gameState = "lost"
    /\ ~showFinalCelebration
    /\ \E newLavaSquares \in generateLavaSquares(currentLevel) :
           initializeLevel(currentLevel, newLavaSquares)
    /\ totalMoves' = 0
    /\ lastOp' = Op("restartLevel", "-", "-")
    /\ UNCHANGED <<currentLevel, gameStarted, highestLevelAchieved, gen, call, hook, server, modal, lbVars>>

\* Retry Level (rendered when lost and not on the final level).
restartLevel ==
    /\ gameStarted
    /\ gameState = "lost"
    /\ ~showFinalCelebration
    /\ \E newLavaSquares \in generateLavaSquares(currentLevel) :
           initializeLevel(currentLevel, newLavaSquares)
    /\ lastOp' = Op("restartLevel", "-", "-")
    /\ UNCHANGED <<currentLevel, totalMoves, gameStarted, highestLevelAchieved,
                   gen, call, hook, server, modal, lbVars>>

\* resetGame that resets the level index and the total and leaves the game,
\* without the other setters of lines 246-252.
resetGame_levelAndTotalOnly ==
    /\ gameStarted
    /\ \/ /\ gameState = "playing" \/ showFinalCelebration
          /\ ~(isEvaluatingLeaderboard \/ showNameModal)
       \/ gameState = "lost" /\ ~showFinalCelebration
    /\ currentLevel' = 0
    /\ totalMoves' = 0
    /\ gameStarted' = FALSE
    /\ showNameModal' = FALSE
    /\ isSavingName' = FALSE
    /\ namePromptAcknowledged' = FALSE
    /\ startSessionCalls' = 0
    /\ lastOp' = Op("resetGame", "-", "-")
    /\ UNCHANGED <<moves, highestLevelAchieved, gameState, visitedSquares,
                   lavaSquares, playerPos, gen, call, hook, server, modal, isLeaderboardConfigured,
                   startingGame, sessionId, hasSubmittedName, lastReported>>
    /\ outcomeEffect(NoOutcome, isEvaluatingLeaderboard, inFlight, FALSE)

\* resetGame: Bailout (while playing) and Play Again (final level won or
\* lost), both disabled while the outcome is being evaluated or the name modal
\* is open, and Back to Menu (lost on another level).
resetGame ==
    /\ gameStarted
    /\ \/ /\ gameState = "playing" \/ showFinalCelebration
          /\ ~(isEvaluatingLeaderboard \/ showNameModal)
       \/ gameState = "lost" /\ ~showFinalCelebration
    /\ currentLevel' = 0
    /\ totalMoves' = 0
    /\ moves' = 0
    /\ highestLevelAchieved' = 0
    /\ gameState' = "playing"
    /\ visitedSquares' = EmptyMap
    /\ lavaSquares' = {}
    /\ gameStarted' = FALSE
    /\ showNameModal' = FALSE
    /\ isSavingName' = FALSE
    /\ namePromptAcknowledged' = FALSE
    /\ startSessionCalls' = 0
    /\ lastOp' = Op("resetGame", "-", "-")
    /\ UNCHANGED <<playerPos, gen, call, hook, server, modal, isLeaderboardConfigured, startingGame,
                   sessionId, hasSubmittedName, lastReported>>
    /\ outcomeEffect(NoOutcome, isEvaluatingLeaderboard, inFlight, FALSE)

NoGen == [pc |-> "idle"]
NoCall == [fn |-> "none"]

\* The useState and useRef initial values of the leaderboard coordination.
LeaderboardIdle ==
    /\ startingGame = FALSE
    /\ pendingOutcome = NoOutcome
    /\ isEvaluatingLeaderboard = FALSE
    /\ showNameModal = FALSE
    /\ isSavingName = FALSE
    /\ namePromptAcknowledged = FALSE
    /\ sessionId = NoSession
    /\ hasSubmittedName = FALSE
    /\ lastReported = NoReport
    /\ startSessionCalls = 0

\* SQL NULL, JSON null and undefined, in the place of a string.
NULL == "NULL"

\* null in the place of an object.
Nil == [null |-> TRUE]

\* hook with no component mounted, server with no table.
NoHook == [mounted |-> FALSE]
NoServer == [now |-> 0]
NoModal == [mounted |-> FALSE]

\* The useState initial values, in the build without credentials: the mount
\* effect of the hook returns at once (hook line 131).
Init ==
    /\ currentLevel = 0
    /\ playerPos = [x |-> 0, y |-> 0]
    /\ lavaSquares = {}
    /\ visitedSquares = EmptyMap
    /\ gameState = "playing"
    /\ moves = 0
    /\ totalMoves = 0
    /\ gameStarted = FALSE
    /\ highestLevelAchieved = 0
    /\ lastOp = Op("mount", "-", "-")
    /\ gen = NoGen
    /\ call = NoCall
    /\ LeaderboardIdle
    /\ isLeaderboardConfigured = FALSE
    /\ inFlight = EmptyBag
    /\ hook = NoHook
    /\ server = NoServer
    /\ modal = NoModal

Next ==
    \/ handleStartGame
    \/ \E direction \in DirectionValues : movePlayer(direction)
    \/ nextLevel
    \/ restartLevel
    \/ resetGame

Spec == Init /\ [][Next]_vars

\* The build with credentials: the mount effect of the hook has called
\* fetchLeaderboard (hook lines 130-147).
InitLb ==
    /\ Init!1 /\ Init!2 /\ Init!3 /\ Init!4 /\ Init!5 /\ Init!6
    /\ Init!7 /\ Init!8 /\ Init!9 /\ Init!10 /\ Init!11 /\ Init!12
    /\ Init!13
    /\ isLeaderboardConfigured = TRUE
    /\ inFlight = SetToBag({InitialLoadCall})
    /\ Init!16 /\ Init!17 /\ Init!18

NextLb ==
    \/ handleStartGame
    \/ startNewSession
    \/ refreshLeaderboard
    \/ loadInitialLeaderboard
    \/ \E direction \in DirectionValues : movePlayer(direction)
    \/ evaluateOutcome
    \/ handleNameSkip
    \/ handleNameSubmit
    \/ submitIdentity
    \/ nextLevel
    \/ restartLevel
    \/ resetGame

SpecLb == InitLb /\ [][NextLb]_vars

\* The build with credentials, the answer to the fetchLeaderboard of the
\* mount effect arriving at any time, on runs of at most MaxLateMoves moves.
movePlayerLate(direction) ==
    /\ totalMoves < MaxLateMoves
    /\ movePlayer(direction)

NextLbLate ==
    \/ handleStartGame
    \/ startNewSession
    \/ refreshLeaderboard
    \/ loadInitialLeaderboard
    \/ loadInitialLeaderboardLate
    \/ \E direction \in DirectionValues : movePlayerLate(direction)
    \/ evaluateOutcome
    \/ handleNameSkip
    \/ handleNameSubmit
    \/ submitIdentity
    \/ nextLevel
    \/ restartLevel
    \/ resetGame

SpecLbLate == InitLb /\ [][NextLbLate]_vars

\* SpecLbLate when every updateScore request of an evaluateOutcome is
\* answered in the end, with a result or with the error of its last attempt.
SpecLbLateFair ==
    /\ InitLb
    /\ [][NextLbLate]_vars
    /\ WF_vars(evaluateOutcome)

(***************************************************************************)
(* generateLavaSquares, statement by statement                             *)
(***************************************************************************)
\* generateLavaSquares(currentLevel) is entered.
InitGen ==
    /\ Init!1 /\ Init!2 /\ Init!3 /\ Init!4 /\ Init!5 /\ Init!6
    /\ Init!7 /\ Init!8 /\ Init!9 /\ Init!10 /\ Init!12
    /\ Init!13 /\ Init!14 /\ Init!15 /\ Init!16 /\ Init!17 /\ Init!18
    /\ \E levelIndex \in 0 .. FINAL_LEVEL_INDEX :
           gen = [pc |-> "lavaCount", currentLevel |-> levelIndex, lavaCount |-> 0,
                  newLavaSquares |-> {}, x |-> 0, y |-> 0]

\* const lavaCount = Math.floor(Math.random() * (maxLava - minLava + 1)) + minLava
genLavaCount ==
    /\ gen.pc = "lavaCount"
    /\ LET level == Level(gen.currentLevel)
       IN  \E r \in RandomInt(level.maxLava - level.minLava + 1) :
               gen' = [gen EXCEPT !.pc = "while", !.lavaCount = r + level.minLava]
    /\ UNCHANGED <<gameVars, lastOp, call, lbVars, hook, server, modal>>

\* One pass through the body of the while loop, on the draws x and y.
genWhileDraw(x, y) ==
    /\ gen.pc = "while"
    /\ Cardinality(gen.newLavaSquares) < gen.lavaCount
    /\ LET level == Level(gen.currentLevel)
       IN  /\ x \in RandomInt(level.size)
           /\ y \in RandomInt(level.size)
           /\ gen' = [gen EXCEPT !.x = x, !.y = y,
                       !.newLavaSquares = LoopIteration(level, gen.newLavaSquares, x, y)]
    /\ UNCHANGED <<gameVars, lastOp, call, lbVars, hook, server, modal>>

\* One pass through the body of the while loop.
genWhile ==
    \E x \in RandomInt(Level(gen.currentLevel).size),
       y \in RandomInt(Level(gen.currentLevel).size) : genWhileDraw(x, y)

\* The loop condition fails: return newLavaSquares.
genReturn ==
    /\ gen.pc = "while"
    /\ ~(Cardinality(gen.newLavaSquares) < gen.lavaCount)
    /\ gen' = [gen EXCEPT !.pc = "return"]
    /\ UNCHANGED <<gameVars, lastOp, call, lbVars, hook, server, modal>>

NextGen == genLavaCount \/ genWhile \/ genReturn

SpecGen == InitGen /\ [][NextGen]_vars

\* The largest grid side of the level table.
MaxLevelSize == Level(FINAL_LEVEL_INDEX).size

\* generateLavaSquares under fair random draws: a statement that can run
\* runs, and a pair (x, y) that would add a cell is drawn before the loop has
\* gone on for ever.
SpecGenFair ==
    /\ InitGen
    /\ [][NextGen]_vars
    /\ WF_vars(genLavaCount)
    /\ WF_vars(genReturn)
    /\ \A x \in RandomInt(MaxLevelSize), y \in RandomInt(MaxLevelSize) :
           WF_vars(genWhileDraw(x, y))

\* What the loop returns is one of the sets initializeLevel draws from.
GenReturnsAnOutcome ==
    gen.pc = "return" => gen.newLavaSquares \in generateLavaSquares(gen.currentLevel)

(***************************************************************************)
(* calculateHeat and isValidMove applied to drawn arguments                *)
(***************************************************************************)
\* The keys around (x, y): the cell, its eight neighbours and two cells at
\* distance 2; membership of any other key is never tested.
HeatProbeKeys(x, y) ==
    { Key(a, b) : a \in (x - 1) .. (x + 1), b \in (y - 1) .. (y + 1) }
        \cup { Key(x + 2, y), Key(x, y - 2) }

InitHeat ==
    /\ Init!1 /\ Init!2 /\ Init!3 /\ Init!4 /\ Init!5 /\ Init!6
    /\ Init!7 /\ Init!8 /\ Init!9 /\ Init!10 /\ Init!11
    /\ Init!13 /\ Init!14 /\ Init!15 /\ Init!16 /\ Init!17 /\ Init!18
    /\ \E x \in 0 .. MaxHeatCoord, y \in 0 .. MaxHeatCoord :
       \E lavaSet \in SUBSET HeatProbeKeys(x, y) :
           call = [fn |-> "calculateHeat", x |-> x, y |-> y, lavaSet |-> lavaSet,
                   returned |-> FALSE, result |-> 0]

callCalculateHeat ==
    /\ call.fn = "calculateHeat"
    /\ ~call.returned
    /\ call' = [call EXCEPT !.returned = TRUE,
                            !.result = calculateHeat(call.x, call.y, call.lavaSet)]
    /\ UNCHANGED <<gameVars, lastOp, gen, lbVars, hook, server, modal>>

SpecHeat == InitHeat /\ [][callCalculateHeat]_vars

InitMove ==
    /\ Init!1 /\ Init!2 /\ Init!3 /\ Init!4 /\ Init!5 /\ Init!6
    /\ Init!7 /\ Init!8 /\ Init!9 /\ Init!10 /\ Init!11
    /\ Init!13 /\ Init!14 /\ Init!15 /\ Init!16 /\ Init!17 /\ Init!18
    /\ \E gridSize \in 1 .. MaxGridSize :
       \E x \in 0 .. (gridSize - 1), y \in 0 .. (gridSize - 1) :
       \E direction \in DirectionValues :
           call = [fn |-> "isValidMove", currentPos |-> [x |-> x, y |-> y],
                   direction |-> direction, gridSize |-> gridSize,
                   returned |-> FALSE,
                   result |-> [valid |-> FALSE, newPos |-> [x |-> x, y |-> y]]]

callIsValidMove ==
    /\ call.fn = "isValidMove"
    /\ ~call.returned
    /\ call' = [call EXCEPT !.returned = TRUE,
                            !.result = isValidMove(call.currentPos, call.direction,
                                                   call.gridSize)]
    /\ UNCHANGED <<gameVars, lastOp, gen, lbVars, hook, server, modal>>

SpecMove == InitMove /\ [][callIsValidMove]_vars

InitColor ==
    /\ Init!1 /\ Init!2 /\ Init!3 /\ Init!4 /\ Init!5 /\ Init!6
    /\ Init!7 /\ Init!8 /\ Init!9 /\ Init!10 /\ Init!11
    /\ Init!13 /\ Init!14 /\ Init!15 /\ Init!16 /\ Init!17 /\ Init!18
    /\ \E adjacentLavaCount \in (0 - MaxColorArg) .. MaxColorArg :
           call = [fn |-> "getHeatColor", adjacentLavaCount |-> adjacentLavaCount,
                   returned |-> FALSE, result |-> ""]

callGetHeatColor ==
    /\ call.fn = "getHeatColor"
    /\ ~call.returned
    /\ call' = [call EXCEPT !.returned = TRUE,
                            !.result = getHeatColor(call.adjacentLavaCount)]
    /\ UNCHANGED <<gameVars, lastOp, gen, lbVars, hook, server, modal>>

SpecColor == InitColor /\ [][callGetHeatColor]_vars

(***************************************************************************)
(* fetchWithRetry (services/leaderboard.ts 53-85), one invocation followed *)
(* statement by statement.  fn is the environment: each call of it either  *)
(* resolves or rejects, with a value or an error that names the attempt.   *)
(***************************************************************************)
RECURSIVE Pow2(_)
Pow2(n) == IF n = 0 THEN 1 ELSE 2 * Pow2(n - 1)

\* The default of baseDelay (line 56), which every caller leaves in place.
DefaultBaseDelay == 1000

\* Math.floor(delay + jitter), jitter being delay * 0.2 * (Math.random() - 0.5)
\* (lines 75-76): the least value, the one without jitter and the greatest.
DelaysWithJitter(delay) ==
    { (9 * delay) \div 10, delay, ((11 * delay) \div 10) - 1 }

InitRetry ==
    /\ Init!1 /\ Init!2 /\ Init!3 /\ Init!4 /\ Init!5 /\ Init!6
    /\ Init!7 /\ Init!8 /\ Init!9 /\ Init!10 /\ Init!11
    /\ Init!13 /\ Init!14 /\ Init!15 /\ Init!16 /\ Init!17 /\ Init!18
    /\ \E maxRetries \in 0 .. MaxRetriesArg :
           call = [fn |-> "fetchWithRetry", maxRetries |-> maxRetries,
                   baseDelay |-> DefaultBaseDelay, attempt |-> 0, pc |-> "for",
                   lastError |-> 0, outcomes |-> << >>, waits |-> << >>,
                   result |-> 0, afterLoop |-> FALSE]

retryFrame == UNCHANGED <<gameVars, lastOp, gen, lbVars, hook, server, modal>>

\* Line 60: the test of the for loop.
retryFor ==
    /\ call.fn = "fetchWithRetry" /\ call.pc = "for"
    /\ call' = [call EXCEPT !.pc = IF call.attempt < call.maxRetries
                                   THEN "try" ELSE "afterLoop"]
    /\ retryFrame

\* Lines 61-65: fn is called and awaited; it resolves, and fetchWithRetry
\* returns its value, or it rejects and the error is caught.
retryTry ==
    /\ call.fn = "fetchWithRetry" /\ call.pc = "try"
    /\ \/ call' = [call EXCEPT !.outcomes = Append(@, "resolved"),
                               !.result = call.attempt + 1,
                               !.pc = "returned"]
       \/ call' = [call EXCEPT !.outcomes = Append(@, "rejected"),
                               !.lastError = call.attempt + 1,
                               !.pc = "catch"]
    /\ retryFrame

\* Lines 66-79 without the test of lines 67-69.
retryCatch_waitsAfterLast ==
    /\ call.fn = "fetchWithRetry" /\ call.pc = "catch"
    /\ LET delay == call.baseDelay * Pow2(call.attempt)
       IN  \E delayWithJitter \in DelaysWithJitter(delay) :
               call' = [call EXCEPT
                            !.waits = Append(@, [delay |-> delay,
                                                 timeout |-> delayWithJitter]),
                            !.pc = "waiting"]
    /\ retryFrame

\* Lines 66-79: the last attempt rethrows; any other starts the timer.
retryCatch ==
    /\ call.fn = "fetchWithRetry" /\ call.pc = "catch"
    /\ IF call.attempt = call.maxRetries - 1
       THEN call' = [call EXCEPT !.result = call.lastError, !.pc = "thrown"]
       ELSE LET delay == call.baseDelay * Pow2(call.attempt)
            IN  \E delayWithJitter \in DelaysWithJitter(delay) :
                    call' = [call EXCEPT
                                 !.waits = Append(@, [delay |-> delay,
                                                      timeout |-> delayWithJitter]),
                                 !.pc = "waiting"]
    /\ retryFrame

\* The timer of line 79 fires; attempt++ (line 60).
retryTimeout ==
    /\ call.fn = "fetchWithRetry" /\ call.pc = "waiting"
    /\ call' = [call EXCEPT !.attempt = @ + 1, !.pc = "for"]
    /\ retryFrame

\* Line 84: throw lastError after the loop.
retryThrowLastError ==
    /\ call.fn = "fetchWithRetry" /\ call.pc = "afterLoop"
    /\ call' = [call EXCEPT !.result = call.lastError, !.afterLoop = TRUE,
                            !.pc = "thrown"]
    /\ retryFrame

NextRetry ==
    \/ retryFor
    \/ retryTry
    \/ retryCatch
    \/ retryTimeout
    \/ retryThrowLastError

SpecRetry == InitRetry /\ [][NextRetry]_vars

(***************************************************************************)
(* hooks/useLeaderboard.ts and services/leaderboard.ts against the edge    *)
(* functions of supabase/functions, the hook rendered on its own           *)
(***************************************************************************)
\* A row of game_sessions (migration lines 5-16), with the columns the edge
\* functions select.
Row(id, name, human, level, total, at) ==
    [session_id |-> id, player_name |-> name, is_human |-> human,
     level_reached |-> level, total_moves |-> total, updated_at |-> at]

\* The order of the leaderboard query: level_reached descending, then
\* total_moves ascending, then updated_at ascending.
RowBefore(a, b) ==
    \/ a.level_reached > b.level_reached
    \/ /\ a.level_reached = b.level_reached
       /\ a.total_moves < b.total_moves
    \/ /\ a.level_reached = b.level_reached
       /\ a.total_moves = b.total_moves
       /\ a.updated_at < b.updated_at

\* The rows of a set in the order of the query.
RECURSIVE OrderRows(_)
OrderRows(rows) ==
    IF rows = {} THEN << >>
    ELSE LET first == CHOOSE r \in rows : \A o \in rows \ {r} : RowBefore(r, o)
         IN  <<first>> \o OrderRows(rows \ {first})

\* .limit(n)
Limit(seq, n) == SubSeq(seq, 1, Min(n, Len(seq)))

\* The query of leaderboard/index.ts 32-40 and of collectLeaderboard
\* (update-score/index.ts 47-63) on the table game_sessions.
collectLeaderboard_noLimit(game_sessions) ==
    OrderRows({ game_sessions[id] : id \in
                  { i \in DOMAIN game_sessions :
                      /\ game_sessions[i].player_name # NULL
                      /\ game_sessions[i].player_name # "" } })

collectLeaderboard(game_sessions) ==
    Limit(OrderRows({ game_sessions[id] : id \in
                        { i \in DOMAIN game_sessions :
                            /\ game_sessions[i].player_name # NULL
                            /\ game_sessions[i].player_name # "" } }),
          TopTenSize)

\* String.prototype.trim on the names of the model: the blank name is " ".
trim(name) == IF name = " " THEN "" ELSE name

\* sanitizeName of update-score/index.ts 40-45 (the names of the model are
\* shorter than 16 characters).
sanitizeName(name) ==
    IF name = NULL \/ name = "" THEN NULL
    ELSE IF trim(name) = "" THEN NULL
    ELSE trim(name)

\* a ?? b
Coalesce(a, b) == IF a = NULL THEN b ELSE a

\* update-score/index.ts 105-130: the row of the session after the update;
\* the trigger of the migration (lines 19-30) sets updated_at.
updateRow(sessionRow, payload, now) ==
    Row(sessionRow.session_id,
        Coalesce(sanitizeName(payload.playerName), sessionRow.player_name),
        Coalesce(payload.isHuman, sessionRow.is_human),
        Max(payload.levelReached, sessionRow.level_reached),
        payload.totalMoves,
        now)

\* normalizeEntry of services/leaderboard.ts 143-150; index counts from 0.
\* updatedAt is not a field of the client's entry: it is kept here for the
\* order of the list to be stated.
normalizeEntry(entry, index) ==
    [sessionId |-> entry.session_id,
     playerName |-> Coalesce(entry.player_name, ""),
     isHuman |-> entry.is_human,
     levelReached |-> entry.level_reached,
     totalMoves |-> entry.total_moves,
     rank |-> IF index >= 0 THEN index + 1 ELSE 0,
     updatedAt |-> entry.updated_at]

\* array.findIndex(item => item[key] === value), counting from 0; -1 when no
\* element passes.
FindIndex(seq, key, value) ==
    LET passing == { i \in 1 .. Len(seq) : seq[i][key] = value }
    IN  IF passing = {} THEN -1
        ELSE (CHOOSE i \in passing : \A j \in passing : i <= j) - 1

\* if (entry.playerName): a non-empty string.
Truthy(name) == name # NULL /\ name # ""

\* array.map with the index, for normalizeEntry.
normalizeAll(rawEntries) ==
    [i \in 1 .. Len(rawEntries) |-> normalizeEntry(rawEntries[i], i - 1)]

\* What fetchLeaderboard returns (services/leaderboard.ts 152-168) when
\* callSupabaseFunction returned or threw, response being the response of
\* its last attempt.
fetchLeaderboard(response) ==
    IF response.status = "ok"
    THEN SelectSeq(normalizeAll(response.body), LAMBDA entry : Truthy(entry.playerName))
    ELSE << >>

\* What startSession returns (services/leaderboard.ts 170-186).
startSession(response) ==
    IF response.status = "ok" THEN response.sessionId ELSE NoSession

\* What updateScore returns (services/leaderboard.ts 201-231): null, or the
\* normalized leaderboard and the entry of the session.
updateScore(payload, response) ==
    IF response.status # "ok" THEN Nil
    ELSE LET rawEntries == response.leaderboard
             normalized == normalizeAll(rawEntries)
             sessionIndex ==
                 FindIndex(rawEntries, "session_id", payload.sessionId)
             sessionEntryRaw ==
                 IF response.session # Nil THEN response.session
                 ELSE IF sessionIndex >= 0 THEN rawEntries[sessionIndex + 1]
                 ELSE Nil
         IN  [leaderboard |-> normalized,
              sessionEntry |->
                  IF sessionEntryRaw = Nil THEN Nil
                  ELSE normalizeEntry(
                           sessionEntryRaw,
                           IF sessionIndex >= 0 THEN sessionIndex
                           ELSE FindIndex(normalized, "sessionId",
                                          sessionEntryRaw.session_id))]

\* compareByScore(a, b) <= 0: a is not placed after b.
NotAfter(a, b) ==
    \/ a.levelReached > b.levelReached
    \/ a.levelReached = b.levelReached /\ a.totalMoves <= b.totalMoves

\* Array.prototype.sort(compareByScore), a stable sort: each element goes
\* behind the elements before it that are not after it.
RECURSIVE SortByScore(_)
SortByScore(pool) ==
    IF pool = << >> THEN << >>
    ELSE LET sorted == SortByScore(SubSeq(pool, 1, Len(pool) - 1))
             last == pool[Len(pool)]
             ahead == { i \in 1 .. Len(sorted) : NotAfter(sorted[i], last) }
             n == IF ahead = {} THEN 0
                  ELSE CHOOSE i \in ahead : \A j \in ahead : i >= j
         IN  SubSeq(sorted, 1, n) \o <<last>> \o SubSeq(sorted, n + 1, Len(sorted))

\* The score of an entry or of the arguments of recordProgress.
Score(levelReached, moveTotal) ==
    [levelReached |-> levelReached, totalMoves |-> moveTotal]

\* syncCacheFromEntries (hook lines 94-99): the value set as topTenCache.
syncCacheFromEntries(entries) ==
    LET firstTen == Limit(entries, TopTenSize)
    IN  [i \in 1 .. Len(firstTen) |->
            Score(firstTen[i].levelReached, firstTen[i].totalMoves)]

\* mergeScoreIntoCache (hook lines 101-107) applied to the cache prev.
mergeScoreIntoCache(prev, score) ==
    Limit(SortByScore(Append(prev, score)), TopTenSize)

\* computeLocalRank (hook lines 109-122) against the cache of the render
\* that made the callback.
computeLocalRank(topTenCache, score) ==
    LET pool == [i \in 1 .. Len(topTenCache) |->
                    [levelReached |-> topTenCache[i].levelReached,
                     totalMoves |-> topTenCache[i].totalMoves,
                     marker |-> "cached"]]
        candidate == [levelReached |-> score.levelReached,
                      totalMoves |-> score.totalMoves,
                      marker |-> "candidate"]
        sorted == SortByScore(Append(pool, candidate))
        index == FindIndex(sorted, "marker", "candidate")
    IN  [rank |-> IF index >= 0 THEN index + 1 ELSE 0,
         withinTopTen |-> index >= 0 /\ index < TopTenSize]

\* The visible entries of applyLeaderboard (hook lines 124-128), ranked.
applyLeaderboard(entries) ==
    LET visibleEntries == SelectSeq(entries, LAMBDA entry : Truthy(entry.playerName))
    IN  [i \in 1 .. Len(visibleEntries) |-> [visibleEntries[i] EXCEPT !.rank = i]]

\* mapSessionEntry (hook lines 56-81); a null rank is 0.
mapSessionEntry(session, result, fallbackEntries) ==
    LET found == FindIndex(fallbackEntries, "sessionId", session)
        fallback == IF found >= 0 THEN fallbackEntries[found + 1] ELSE Nil
    IN  IF session = NoSession \/ result = Nil THEN [entry |-> Nil, rank |-> 0]
        ELSE IF result.sessionEntry # Nil
        THEN LET rank == IF result.sessionEntry.rank > 0 THEN result.sessionEntry.rank
                         ELSE IF fallback # Nil THEN fallback.rank
                         ELSE 0
             IN  [entry |-> [result.sessionEntry EXCEPT !.rank = rank], rank |-> rank]
        ELSE [entry |-> fallback,
              rank |-> IF fallback # Nil /\ fallback.rank > 0 THEN fallback.rank ELSE 0]

\* A request of callSupabaseFunction awaiting its response: the function
\* of the hook that awaits it, the edge function, the payload and the
\* values the awaiting function closes over.  The attempts of fetchWithRetry
\* (services/leaderboard.ts 53-85) are one request: it is answered by the
\* attempt that succeeds, or fails when the last attempt has failed.
NoResponse == [status |-> "none"]
ErrorResponse == [status |-> "error"]

Request(by, fn, payload, closure) ==
    [by |-> by, fn |-> fn, payload |-> payload, closure |-> closure,
     response |-> NoResponse]

\* The useState and useRef initial values of the hook (lines 84-92), its
\* mount effect having called fetchLeaderboard (lines 130-147).  calls
\* counts the calls made by the caller, recordedSinceStart tells that
\* recordProgress was called since the last startNewSession that got an id,
\* startedSession is what the last startNewSession returned (null before
\* the first), returned is what the last call returned.
MountedHook ==
    [mounted |-> TRUE,
     leaderboard |-> << >>,
     sessionId |-> NoSession,
     hasSubmittedName |-> FALSE,
     isHuman |-> NULL,
     topTenCache |-> << >>,
     lastReported |-> << >>,
     pending |-> {Request("loadInitialLeaderboard", "leaderboard", Nil, Nil)},
     calls |-> 0,
     recordedSinceStart |-> FALSE,
     startedSession |-> NoSession,
     returned |-> [fn |-> "none"]]

\* The requests of the calls the caller awaits (the mount effect is not
\* awaited).
AwaitedRequests == { r \in hook.pending : r.by # "loadInitialLeaderboard" }

\* playerEntry (hook lines 249-252) of the hook state h.
playerEntry(h) ==
    LET found == FindIndex(h.leaderboard, "sessionId", h.sessionId)
    IN  IF h.sessionId = NoSession \/ found < 0 THEN Nil ELSE h.leaderboard[found + 1]

\* The render that commits the hook state h and the effect of lines 266-273
\* after it, which runs when playerEntry is another object than before:
\* when the list was set or the session changed, and there is an entry.
commit(h, listSet) ==
    LET entry == playerEntry(h)
    IN  IF entry # Nil /\ (listSet \/ h.sessionId # hook.sessionId)
        THEN [h EXCEPT !.hasSubmittedName =
                           IF Truthy(entry.playerName) THEN TRUE ELSE @,
                       !.isHuman =
                           IF entry.isHuman \in {"true", "false"} THEN entry.isHuman ELSE @]
        ELSE h

\* The caller of the hook calls one of its functions when the calls it made
\* before have returned.
CallerReady ==
    /\ hook.mounted
    /\ hook.calls < MaxHookCalls
    /\ AwaitedRequests = {}

hookFrame == UNCHANGED <<gameVars, lastOp, gen, call, lbVars, modal>>

\* startNewSession() up to the await of line 152.
callStartNewSession ==
    /\ CallerReady
    /\ hook' = [hook EXCEPT
                  !.pending = @ \cup {Request("startNewSession", "start-session", Nil, Nil)},
                  !.calls = @ + 1,
                  !.returned = [fn |-> "none"]]
    /\ UNCHANGED server
    /\ hookFrame

\* refreshLeaderboard() up to the await of line 259.
callRefreshLeaderboard ==
    /\ CallerReady
    /\ hook' = [hook EXCEPT
                  !.pending = @ \cup {Request("refreshLeaderboard", "leaderboard", Nil, Nil)},
                  !.calls = @ + 1,
                  !.returned = [fn |-> "none"]]
    /\ UNCHANGED server
    /\ hookFrame

\* Lines 169-184 of recordProgress, called by `by` in the render of the hook
\* state h: null without a session, otherwise the updateScore request with
\* the local rank computed before the await.
recordProgressUpToAwait(h, by, levelReached, moveTotal, playerName, isHumanFlag) ==
    IF h.sessionId = NoSession
    THEN [h EXCEPT !.calls = @ + 1,
                   !.recordedSinceStart = TRUE,
                   !.returned = [fn |-> by, value |-> Nil]]
    ELSE [h EXCEPT
            !.calls = @ + 1,
            !.recordedSinceStart = TRUE,
            !.returned = [fn |-> "none"],
            !.pending = @ \cup
                {Request(by, "update-score",
                         [sessionId |-> h.sessionId, levelReached |-> levelReached,
                          totalMoves |-> moveTotal, playerName |-> playerName,
                          isHuman |-> isHumanFlag],
                         [localRankInfo |->
                              computeLocalRank(h.topTenCache,
                                               Score(levelReached, moveTotal)),
                          suppliedName |-> trim(playerName) # "",
                          topTenCache |-> h.topTenCache])}]

\* recordProgress(args) called by the caller of the hook.
HookLevels == {1, Len(levels)}
HookMoves == {1, MaxTotalMoves}

callRecordProgress ==
    /\ CallerReady
    /\ \E levelReached \in HookLevels, moveTotal \in HookMoves,
          playerName \in {"", "Ann"}, isHumanFlag \in {NULL} :
          hook' = recordProgressUpToAwait(hook, "recordProgress", levelReached,
                                          moveTotal, playerName, isHumanFlag)
    /\ UNCHANGED server
    /\ hookFrame

\* submitIdentity without the test of lastReportedRef in line 229: a score
\* of 0 is sent when none was reported.
callSubmitIdentity_withoutReport ==
    /\ CallerReady
    /\ \E playerName \in {"", " ", "Ann"}, isHumanFlag \in {"true", "false"} :
          hook' = IF hook.sessionId = NoSession
                  THEN [hook EXCEPT !.calls = @ + 1,
                                    !.returned = [fn |-> "submitIdentity", value |-> Nil]]
                  ELSE LET reported == IF hook.lastReported = << >> THEN Score(0, 0)
                                       ELSE hook.lastReported[1]
                       IN  recordProgressUpToAwait(hook, "submitIdentity",
                                                   reported.levelReached,
                                                   reported.totalMoves,
                                                   playerName, isHumanFlag)
    /\ UNCHANGED server
    /\ hookFrame

\* submitIdentity(args) called by the caller of the hook: lines 229-237, up
\* to the await inside recordProgress.
callSubmitIdentity ==
    /\ CallerReady
    /\ \E playerName \in {"", " ", "Ann"}, isHumanFlag \in {"true", "false"} :
          hook' = IF hook.sessionId = NoSession \/ hook.lastReported = << >>
                  THEN [hook EXCEPT !.calls = @ + 1,
                                    !.returned = [fn |-> "submitIdentity", value |-> Nil]]
                  ELSE recordProgressUpToAwait(hook, "submitIdentity",
                                               hook.lastReported[1].levelReached,
                                               hook.lastReported[1].totalMoves,
                                               playerName, isHumanFlag)
    /\ UNCHANGED server
    /\ hookFrame

\* The request r of hook.pending replaced by s.
withRequest(r, s) == [hook EXCEPT !.pending = (@ \ {r}) \cup {s}]

\* callSupabaseFunction throws to the function that called it.
failed(r) == [r EXCEPT !.response = ErrorResponse]

Unanswered == { r \in hook.pending : r.response = NoResponse }

\* Every attempt of a request fails without the edge function having
\* changed the table: the network, a 4xx or 5xx response.
attemptsFail ==
    \E r \in Unanswered :
        /\ hook' = withRequest(r, failed(r))
        /\ UNCHANGED server
        /\ hookFrame

\* leaderboard/index.ts answers with the rows of its query.
serveLeaderboard ==
    \E r \in Unanswered :
        /\ r.fn = "leaderboard"
        /\ hook' = withRequest(r, [r EXCEPT !.response =
                        [status |-> "ok",
                         body |-> collectLeaderboard(server.game_sessions)]])
        /\ UNCHANGED server
        /\ hookFrame

\* The ids the start-session function gives to new rows.
NewSessionIds == (MaxSeedRows + 1) .. (MaxSeedRows + MaxHookSessions)

\* start-session inserts a row with the defaults of the migration and
\* answers with its id.
serveStartSession ==
    \E r \in Unanswered :
        /\ r.fn = "start-session"
        /\ \E id \in NewSessionIds :
              /\ id \notin DOMAIN server.game_sessions
              /\ \A lower \in NewSessionIds :
                     lower < id => lower \in DOMAIN server.game_sessions
              /\ server' = [now |-> server.now + 1,
                            game_sessions |->
                                [i \in DOMAIN server.game_sessions \cup {id} |->
                                    IF i = id
                                    THEN Row(id, NULL, NULL, 0, 0, server.now)
                                    ELSE server.game_sessions[i]]]
              /\ \/ hook' = withRequest(r, [r EXCEPT !.response =
                                 [status |-> "ok", sessionId |-> id]])
                 \/ hook' = withRequest(r, failed(r))
        /\ hookFrame

\* update-score/index.ts 102-160 answers: the row of the session
\* is updated, then the leaderboard is collected (an error of that query
\* leaves the list of the response empty); the response reaches the client
\* or is lost on the way.
serveUpdateScore ==
    \E r \in Unanswered :
        /\ r.fn = "update-score"
        /\ r.payload.sessionId \in DOMAIN server.game_sessions
        /\ LET updated == updateRow(server.game_sessions[r.payload.sessionId],
                                    r.payload, server.now)
               table == [server.game_sessions EXCEPT ![r.payload.sessionId] = updated]
           IN  /\ server' = [now |-> server.now + 1, game_sessions |-> table]
               /\ \/ \E leaderboard \in {collectLeaderboard(table), << >>} :
                        hook' = withRequest(r, [r EXCEPT !.response =
                                    [status |-> "ok",
                                     leaderboard |-> leaderboard,
                                     session |-> updated]])
                  \/ hook' = withRequest(r, failed(r))
        /\ hookFrame

Answered(by) == { r \in hook.pending : r.by \in by /\ r.response # NoResponse }

\* loadInitialLeaderboard (hook lines 130-147) and refreshLeaderboard (lines
\* 256-264) after the await of fetchLeaderboard.
settleFetch ==
    \E r \in Answered({"loadInitialLeaderboard", "refreshLeaderboard"}) :
        /\ LET entries == fetchLeaderboard(r.response)
               visible == applyLeaderboard(entries)
           IN  hook' = commit([hook EXCEPT
                                 !.pending = @ \ {r},
                                 !.leaderboard = visible,
                                 !.topTenCache = syncCacheFromEntries(visible),
                                 !.returned = IF r.by = "refreshLeaderboard"
                                              THEN [fn |-> r.by, value |-> Nil]
                                              ELSE @],
                              TRUE)
        /\ UNCHANGED server
        /\ hookFrame

\* startNewSession (hook lines 149-165) after the await of startSession.
settleStartSession ==
    \E r \in Answered({"startNewSession"}) :
        /\ LET id == startSession(r.response)
           IN  hook' = commit(IF id # NoSession
                              THEN [hook EXCEPT
                                      !.pending = @ \ {r},
                                      !.sessionId = id,
                                      !.hasSubmittedName = FALSE,
                                      !.isHuman = NULL,
                                      !.lastReported = << >>,
                                      !.recordedSinceStart = FALSE,
                                      !.startedSession = id,
                                      !.returned = [fn |-> r.by, value |-> id]]
                              ELSE [hook EXCEPT
                                      !.pending = @ \ {r},
                                      !.startedSession = id,
                                      !.returned = [fn |-> r.by, value |-> id]],
                              FALSE)
        /\ UNCHANGED server
        /\ hookFrame

\* recordProgress without the test of withinTopTen in line 216.
recordProgressResult_promptsOutsideTopTen(r) ==
    LET result == updateScore(r.payload, r.response)
        mapped == IF result = Nil THEN [entry |-> Nil, rank |-> 0]
                  ELSE mapSessionEntry(r.payload.sessionId, result, result.leaderboard)
        outcomeEntry == mapped.entry
    IN  [entry |-> outcomeEntry,
         rank |-> IF mapped.rank > 0 THEN mapped.rank ELSE r.closure.localRankInfo.rank,
         shouldPromptName |->
             /\ ~ ( \/ r.closure.suppliedName
                    \/ outcomeEntry # Nil /\ Truthy(outcomeEntry.playerName) )]

\* What recordProgress returns (hook lines 186-224) for the request r.
recordProgressResult(r) ==
    LET result == updateScore(r.payload, r.response)
        mapped == IF result = Nil THEN [entry |-> Nil, rank |-> 0]
                  ELSE mapSessionEntry(r.payload.sessionId, result, result.leaderboard)
        outcomeEntry == mapped.entry
    IN  [entry |-> outcomeEntry,
         rank |-> IF mapped.rank > 0 THEN mapped.rank ELSE r.closure.localRankInfo.rank,
         shouldPromptName |->
             /\ r.closure.localRankInfo.withinTopTen
             /\ ~ ( \/ r.closure.suppliedName
                    \/ outcomeEntry # Nil /\ Truthy(outcomeEntry.playerName) )]

\* recordProgress after the await of updateScore (hook lines 186-224), and
\* lines 239-244 of submitIdentity when it was the caller.
settleUpdateScore ==
    \E r \in Answered({"recordProgress", "submitIdentity"}) :
        /\ LET result == updateScore(r.payload, r.response)
               value == recordProgressResult(r)
               score == Score(r.payload.levelReached, r.payload.totalMoves)
               visible == IF result = Nil THEN hook.leaderboard
                          ELSE applyLeaderboard(result.leaderboard)
               cache == IF result = Nil THEN hook.topTenCache
                        ELSE syncCacheFromEntries(visible)
               entryNamed == value.entry # Nil /\ Truthy(value.entry.playerName)
               entryHuman == IF value.entry # Nil
                                  /\ value.entry.isHuman \in {"true", "false"}
                             THEN value.entry.isHuman ELSE hook.isHuman
               flagHuman == IF r.payload.isHuman \in {"true", "false"}
                            THEN r.payload.isHuman ELSE entryHuman
               named == \/ hook.hasSubmittedName
                        \/ ~ r.closure.suppliedName /\ entryNamed
                        \/ r.closure.suppliedName
           IN  hook' = commit([hook EXCEPT
                                 !.pending = @ \ {r},
                                 !.leaderboard = visible,
                                 !.topTenCache = mergeScoreIntoCache(cache, score),
                                 !.lastReported = <<score>>,
                                 !.hasSubmittedName =
                                     IF r.by = "submitIdentity"
                                     THEN r.payload.playerName # ""
                                     ELSE named,
                                 !.isHuman = flagHuman,
                                 !.returned = [fn |-> r.by, value |-> value,
                                               request |-> r]],
                              result # Nil)
        /\ UNCHANGED server
        /\ hookFrame

\* The tables the hook is mounted against: rows of other sessions, some
\* without a name, and enough named ones for the limit of the query to cut.
SeedRow(i) ==
    Row(i,
        IF i = 3 THEN NULL ELSE IF i = 6 THEN "" ELSE "Pat",
        NULL,
        Len(levels) - (i % 2),
        1 + (i % 3),
        i)

SeededTables ==
    { [i \in 1 .. n |-> SeedRow(i)] : n \in {0, MaxSeedRows - 1, MaxSeedRows} }

InitHook ==
    /\ Init!1 /\ Init!2 /\ Init!3 /\ Init!4 /\ Init!5 /\ Init!6 /\ Init!7
    /\ Init!8 /\ Init!9 /\ Init!10 /\ Init!11 /\ Init!12 /\ Init!13
    /\ isLeaderboardConfigured = TRUE
    /\ Init!15
    /\ hook = MountedHook
    /\ \E table \in SeededTables :
          server = [now |-> MaxSeedRows + 1, game_sessions |-> table]
    /\ Init!18

NextHook ==
    \/ callStartNewSession
    \/ callRefreshLeaderboard
    \/ callRecordProgress
    \/ callSubmitIdentity
    \/ attemptsFail
    \/ serveLeaderboard
    \/ serveStartSession
    \/ serveUpdateScore
    \/ settleFetch
    \/ settleStartSession
    \/ settleUpdateScore

SpecHook == InitHook /\ [][NextHook]_vars

(***************************************************************************)
(* The name modal (src/src/components/LeaderboardModal.tsx) rendered on    *)
(* its own, with the parent's handleNameSubmit and handleNameSkip          *)
(* (App.tsx 310-324) behind onSubmit and onSkip.  A name is the sequence   *)
(* of its characters; one character stands for each class that the         *)
(* pattern of sanitizeName and String.prototype.trim tell apart.           *)
(***************************************************************************)
\* A letter, a digit, the underscore, the space, the hyphen, a punctuation
\* mark, and the tab: a white-space character other than the space.
InputChars == {"a", "1", "_", " ", "-", "!", "\t"}

\* The characters \s matches and trim removes.
WhiteSpace == {" ", "\t"}

\* sanitizeName (modal lines 18-20): input.replace(/[^a-zA-Z0-9_\s-]/g, '').
modalSanitizeName(input) ==
    SelectSeq(input, LAMBDA c : c \in {"a", "1", "_", "-"} \cup WhiteSpace)

\* String.prototype.trim on a sequence of characters.
RECURSIVE modalTrim(_)
modalTrim(name) ==
    IF name = << >> THEN name
    ELSE IF Head(name) \in WhiteSpace THEN modalTrim(Tail(name))
    ELSE IF name[Len(name)] \in WhiteSpace
         THEN modalTrim(SubSeq(name, 1, Len(name) - 1))
    ELSE name

\* No call of onSubmit yet.
NoSubmit == [called |-> FALSE, name |-> << >>, isHuman |-> FALSE]

\* The modal as mounted closed with an empty default name.
ClosedModal ==
    [mounted |-> TRUE, isOpen |-> FALSE, isSaving |-> FALSE,
     name |-> << >>, isHuman |-> FALSE, onSubmit |-> NoSubmit]

modalFrame == UNCHANGED <<gameVars, lastOp, gen, call, lbVars, hook, server>>

\* The default names the parent passes: none, or the name of the session's
\* entry, which an earlier submission of the modal saved.
DefaultNames == {<< >>, <<"a">>}

\* The parent opens the modal (setShowNameModal(true), App.tsx 297); the
\* effect of lines 34-39 loads the defaults.
openModal ==
    /\ modal.mounted /\ ~modal.isOpen
    /\ \E defaultName \in DefaultNames, defaultIsHuman \in BOOLEAN :
           modal' = [modal EXCEPT !.isOpen = TRUE, !.isSaving = FALSE,
                                  !.name = defaultName, !.isHuman = defaultIsHuman,
                                  !.onSubmit = NoSubmit]
    /\ modalFrame

\* The values the input can hold after one edit of name: a character put in
\* anywhere while maxLength allows one more, or a character taken out.
EditedValues(name) ==
    { SubSeq(name, 1, i) \o <<c>> \o SubSeq(name, i + 1, Len(name)) :
          i \in 0 .. (IF Len(name) < MaxNameLength THEN Len(name) ELSE -1),
          c \in InputChars }
    \cup { SubSeq(name, 1, i - 1) \o SubSeq(name, i + 1, Len(name)) :
               i \in 1 .. Len(name) }

\* onChange of the name input (line 66).
onChangeName ==
    /\ modal.mounted /\ modal.isOpen
    /\ \E value \in EditedValues(modal.name) :
           modal' = [modal EXCEPT !.name = modalSanitizeName(value)]
    /\ modalFrame

\* onChange of the checkbox (line 75).
onChangeIsHuman ==
    /\ modal.mounted /\ modal.isOpen
    /\ modal' = [modal EXCEPT !.isHuman = ~modal.isHuman]
    /\ modalFrame

\* Save, or Enter in the input: handleSubmit (lines 42-46) behind the submit
\* button, which line 96 disables while saving or while the trimmed name is
\* empty; the parent's handleNameSubmit sets isSavingName (App.tsx 311).
handleSubmit ==
    /\ modal.mounted /\ modal.isOpen
    /\ ~(modal.isSaving \/ Len(modalTrim(modal.name)) = 0)
    /\ modal' = [modal EXCEPT
                     !.onSubmit = [called |-> TRUE, name |-> modalTrim(modal.name),
                                   isHuman |-> modal.isHuman],
                     !.isSaving = TRUE]
    /\ modalFrame

\* The finally of handleNameSubmit (App.tsx 314-318) closes the modal.
savingDone ==
    /\ modal.mounted /\ modal.isOpen /\ modal.isSaving
    /\ modal' = [modal EXCEPT !.isOpen = FALSE, !.isSaving = FALSE]
    /\ modalFrame

\* Skip (disabled while saving, line 89): handleNameSkip closes the modal.
onSkip ==
    /\ modal.mounted /\ modal.isOpen /\ ~modal.isSaving
    /\ modal' = [modal EXCEPT !.isOpen = FALSE]
    /\ modalFrame

InitModal ==
    /\ Init!1 /\ Init!2 /\ Init!3 /\ Init!4 /\ Init!5 /\ Init!6 /\ Init!7
    /\ Init!8 /\ Init!9 /\ Init!10 /\ Init!11 /\ Init!12 /\ Init!13
    /\ Init!14 /\ Init!15 /\ Init!16 /\ Init!17
    /\ modal = ClosedModal

NextModal ==
    \/ openModal
    \/ onChangeName
    \/ onChangeIsHuman
    \/ handleSubmit
    \/ savingDone
    \/ onSkip

SpecModal == InitModal /\ [][NextModal]_vars

(***************************************************************************)
(* The edge function update-score (src/supabase/functions/update-score/    *)
(* index.ts) statement by statement: its select (105-109) and its update   *)
(* (126-130) are two requests to the database, and the function runs once  *)
(* per HTTP request, so that several invocations for one session can be    *)
(* between their select and their update at the same time.  The table has  *)
(* no trigger or constraint on level_reached                               *)
(* (migrations/20250220000137_create_game_sessions.sql).                   *)
(***************************************************************************)
\* The bodies of the requests: levelReached and totalMoves are numbers (the
\* check of lines 95-100), no name and no isHuman.
ScorePayloads ==
    { [sessionId |-> 1, levelReached |-> level, totalMoves |-> total,
       playerName |-> NULL, isHuman |-> NULL] :
        level \in 1 .. Len(levels), total \in {1, MaxTotalMoves} }

\* The row that start-session inserted for session 1, and no invocation.
InitServer ==
    /\ Init!1 /\ Init!2 /\ Init!3 /\ Init!4 /\ Init!5 /\ Init!6 /\ Init!7
    /\ Init!8 /\ Init!9 /\ Init!10 /\ Init!11 /\ Init!12 /\ Init!13
    /\ Init!14 /\ Init!15 /\ Init!16 /\ Init!18
    /\ server = [now |-> 1,
                 game_sessions |-> [i \in {1} |-> Row(1, NULL, NULL, 0, 0, 0)],
                 invocations |-> {},
                 received |-> 0]

serverFrame == UNCHANGED <<gameVars, lastOp, gen, call, lbVars, hook, modal>>

\* Lines 71-103: a request arrives and passes the checks of its body.
receiveUpdateScore ==
    /\ server.received < MaxScoreRequests
    /\ \E payload \in ScorePayloads :
           server' = [server EXCEPT
               !.received = @ + 1,
               !.invocations = @ \cup {[n |-> server.received + 1,
                                        payload |-> payload,
                                        pc |-> "select",
                                        sessionRow |-> Nil]}]
    /\ serverFrame

\* Lines 105-109: the invocation reads the row of its session.
selectSessionRow ==
    /\ \E inv \in server.invocations :
           /\ inv.pc = "select"
           /\ server' = [server EXCEPT
                  !.invocations = (@ \ {inv}) \cup
                      {[inv EXCEPT !.pc = "update",
                                   !.sessionRow =
                                       server.game_sessions[inv.payload.sessionId]]}]
    /\ serverFrame

\* Lines 119-130: the updates are computed from the row that was read, and
\* written; the trigger sets updated_at.  The invocation then answers.
updateSessionRow ==
    /\ \E inv \in server.invocations :
           /\ inv.pc = "update"
           /\ server' = [server EXCEPT
                  !.now = @ + 1,
                  !.game_sessions[inv.payload.sessionId] =
                      updateRow(inv.sessionRow, inv.payload, server.now),
                  !.invocations = @ \ {inv}]
    /\ serverFrame

NextServer ==
    \/ receiveUpdateScore
    \/ selectSessionRow
    \/ updateSessionRow

SpecServer == InitServer /\ [][NextServer]_vars

(***************************************************************************)
(* Properties                                                              *)
(***************************************************************************)
startKey(levelIndex) == Key(0, Level(levelIndex).size - 1)

targetPos(levelIndex) == [x |-> Level(levelIndex).size - 1, y |-> 0]

GridCoords(levelIndex) == 0 .. (Level(levelIndex).size - 1)

\* The handlers that run initializeLevel.
InitializingOps == {"handleStartGame", "nextLevel", "restartLevel"}

\* The step is a call movePlayer(direction) in a started game.
MoveRequested == gameStarted /\ lastOp'.op = "movePlayer"

\* The cell one step from the player in the direction of the move of this
\* step, not clamped.
RequestedCell ==
    [x |-> playerPos.x + (CASE lastOp'.dir = "right" -> 1
                            [] lastOp'.dir = "left" -> -1
                            [] OTHER -> 0),
     y |-> playerPos.y + (CASE lastOp'.dir = "down" -> 1
                            [] lastOp'.dir = "up" -> -1
                            [] OTHER -> 0)]

\* The move of this step has an in-grid destination other than the position.
MoveChangesPosition ==
    /\ lastOp'.dir \in Directions
    /\ RequestedCell.x \in GridCoords(currentLevel)
    /\ RequestedCell.y \in GridCoords(currentLevel)

\* Every entry other than -1 is the heat of its cell against lavaSquares.
VisitedHeatIsCurrent ==
    gameStarted =>
        \A key \in DOMAIN visitedSquares :
            visitedSquares[key] # -1 =>
                \E x \in GridCoords(currentLevel), y \in GridCoords(currentLevel) :
                    /\ key = Key(x, y)
                    /\ visitedSquares[key] = calculateHeat(x, y, lavaSquares)

\* C1: in a started game every VisitedMap entry other than the loss sentinel
\* -1 is the key of an in-grid cell and equals calculateHeat of that cell
\* against the hazard set in force (the one generated by the most recent
\* initializeLevel), for the start entry and for every entry written by a move.
\* That set is replaced only by a handler that runs initializeLevel (and
\* emptied by resetGame on the way to the menu).
C1_VisitedHeatMatchesCurrentHazards ==
    /\ []VisitedHeatIsCurrent
    /\ [][ lavaSquares' # lavaSquares =>
              \/ lastOp'.op \in InitializingOps
              \/ lastOp'.op = "resetGame" /\ ~gameStarted' /\ lavaSquares' = {}
        ]_vars

\* C1 witness: a later attempt of the run (moves made before this level
\* attempt) in which a move has just recorded a non-zero heat next to the
\* start entry.
C1_Witness ==
    /\ gameStarted
    /\ totalMoves > moves
    /\ lastOp.ret = "heat"
    /\ Cardinality(DOMAIN visitedSquares) >= 2
    /\ visitedSquares[Key(playerPos.x, playerPos.y)] >= 2

\* C2: the set generateLavaSquares returns has between minLava and maxLava
\* elements of the level, all of them keys of in-grid cells, and holds neither
\* the start cell (0, size-1) nor the target cell (size-1, 0).
C2_GeneratedSetWithinRangeAndSafe ==
    gen.pc = "return" =>
        LET level == Level(gen.currentLevel)
            n == Cardinality(gen.newLavaSquares)
        IN  /\ level.minLava <= n /\ n <= level.maxLava
            /\ gen.newLavaSquares \subseteq
                   { Key(x, y) : x \in 0 .. (level.size - 1), y \in 0 .. (level.size - 1) }
            /\ Key(0, level.size - 1) \notin gen.newLavaSquares
            /\ Key(level.size - 1, 0) \notin gen.newLavaSquares

\* C2 witness: on a level with maxLava > minLava the call returned a set of
\* maxLava hazards.
C2_Witness ==
    /\ gen.pc = "return"
    /\ Level(gen.currentLevel).maxLava > Level(gen.currentLevel).minLava
    /\ Cardinality(gen.newLavaSquares) = Level(gen.currentLevel).maxLava

\* The cells at Chebyshev distance 1 from (x, y).
ChebyshevNeighbours(x, y) ==
    { c \in ((x - 1) .. (x + 1)) \X ((y - 1) .. (y + 1)) :
        Max(IF c[1] >= x THEN c[1] - x ELSE x - c[1],
            IF c[2] >= y THEN c[2] - y ELSE y - c[2]) = 1 }

\* C3: calculateHeat(p, H) is the number of the 8 cells at Chebyshev distance
\* 1 from p that are members of H; p itself is not counted, and the result is
\* in 0..8.
C3_HeatCountsEightNeighbours ==
    (call.fn = "calculateHeat" /\ call.returned) =>
        /\ call.result =
               Cardinality({ c \in ChebyshevNeighbours(call.x, call.y) :
                             Key(c[1], c[2]) \in call.lavaSet })
        /\ call.result \in 0 .. 8
        /\ Cardinality(ChebyshevNeighbours(call.x, call.y)) = 8

\* C3 witness: all eight neighbours and the cell itself are hazards, at a
\* corner of the grid (neighbours with negative coordinates): heat 8.
C3_Witness ==
    /\ call.fn = "calculateHeat" /\ call.returned
    /\ call.x = 0 /\ call.y = 0
    /\ Key(call.x, call.y) \in call.lavaSet
    /\ call.result = 8

Clamp(v, lo, hi) == IF v < lo THEN lo ELSE IF v > hi THEN hi ELSE v

\* C4: isValidMove returns the position one cell further in the direction
\* (up: y-1, down: y+1, left: x-1, right: x+1) clamped to [0, gridSize-1];
\* valid is true iff that position differs from the input; a value other than
\* the four directions gives valid = false and the input position.
C4_IsValidMoveShiftsAndClamps ==
    (call.fn = "isValidMove" /\ call.returned) =>
        LET pos == call.currentPos
            d == call.direction
            hi == call.gridSize - 1
            shifted == [x |-> pos.x + (IF d = "right" THEN 1 ELSE IF d = "left" THEN -1 ELSE 0),
                        y |-> pos.y + (IF d = "down" THEN 1 ELSE IF d = "up" THEN -1 ELSE 0)]
        IN  /\ d \in {"up", "down", "left", "right"} =>
                call.result.newPos = [x |-> Clamp(shifted.x, 0, hi),
                                      y |-> Clamp(shifted.y, 0, hi)]
            /\ call.result.valid <=> (call.result.newPos # pos)
            /\ d \notin {"up", "down", "left", "right"} =>
                (call.result.valid = FALSE /\ call.result.newPos = pos)

\* C4 witness: a move down from the bottom row was absorbed by the clamp.
C4_Witness ==
    /\ call.fn = "isValidMove" /\ call.returned
    /\ call.direction = "down"
    /\ call.gridSize > 1
    /\ call.currentPos.y = call.gridSize - 1
    /\ call.result.valid = FALSE

\* C5: a move made while playing whose destination is a hazard sets status
\* to lost, puts the player on the destination, records -1 for it and adds
\* exactly 1 to the level and to the total move count; and an entry -1 stays
\* in the VisitedMap with value -1 through every later step of the game, up to
\* the step that re-initializes the level (or leaves the game for the menu).
C5_LossOnHazardAndSentinelKept ==
    [][ /\ ( /\ MoveRequested
             /\ gameState = "playing"
             /\ MoveChangesPosition
             /\ Key(RequestedCell.x, RequestedCell.y) \in lavaSquares )
          => ( /\ gameState' = "lost"
               /\ playerPos' = RequestedCell
               /\ Key(RequestedCell.x, RequestedCell.y) \in DOMAIN visitedSquares'
               /\ visitedSquares'[Key(RequestedCell.x, RequestedCell.y)] = -1
               /\ moves' = moves + 1
               /\ totalMoves' = totalMoves + 1 )
        /\ \A key \in DOMAIN visitedSquares :
             ( /\ visitedSquares[key] = -1
               /\ lastOp'.op \notin InitializingOps
               /\ gameStarted' )
             => (key \in DOMAIN visitedSquares' /\ visitedSquares'[key] = -1)
      ]_vars

\* C5 witness: the game is lost on a hazard entered after at least one safe
\* move, and a further move has been requested since.
C5_Witness ==
    /\ gameStarted
    /\ gameState = "lost"
    /\ moves >= 2
    /\ lastOp = Op("movePlayer", "up", "notPlaying")
    /\ visitedSquares[Key(playerPos.x, playerPos.y)] = -1

\* C6: within a level attempt status becomes won in exactly the move that
\* takes the player onto the target cell (size-1, 0): a move onto the target
\* gives won, status turns won by no other step, and status is never won
\* while the player is elsewhere.
C6_WonExactlyOnEnteringTarget ==
    [][ /\ ( /\ MoveRequested
             /\ gameState = "playing"
             /\ MoveChangesPosition
             /\ RequestedCell = targetPos(currentLevel) )
          => gameState' = "won"
        /\ (gameState' = "won" /\ gameState # "won")
          => ( /\ MoveRequested
               /\ playerPos # targetPos(currentLevel)
               /\ playerPos' = targetPos(currentLevel) )
        /\ gameState' = "won" => playerPos' = targetPos(currentLevel')
      ]_vars

\* C6 witness: the last level is won by the move that has just been made.
C6_Witness ==
    /\ gameStarted
    /\ currentLevel = FINAL_LEVEL_INDEX
    /\ gameState = "won"
    /\ lastOp.ret = "won"
    /\ moves = 4

\* C7: a move requested while status is won or lost changes none of position,
\* VisitedMap, hazard set, status, level move count, total move count and
\* highestLevelAchieved, whatever the direction.
C7_MoveIgnoredWhenNotPlaying ==
    [][ (MoveRequested /\ gameState \in {"won", "lost"})
          => UNCHANGED <<playerPos, visitedSquares, lavaSquares, gameState,
                         moves, totalMoves, highestLevelAchieved>>
      ]_vars

\* C7 witness: a move to the left was requested after the level was won (the
\* player stands on the target, where a move left is not absorbed).
C7_Witness ==
    /\ gameStarted
    /\ gameState = "won"
    /\ lastOp = Op("movePlayer", "left", "notPlaying")

\* C8: a move requested while playing whose destination is the current
\* position (the step leaves the grid, or the direction is none of the four)
\* changes none of position, VisitedMap, status, level and total move count.
C8_AbsorbedMoveChangesNothing ==
    [][ (MoveRequested /\ gameState = "playing" /\ ~MoveChangesPosition)
          => UNCHANGED <<playerPos, visitedSquares, gameState, moves, totalMoves>>
      ]_vars

\* C8 witness: after some moves, a move to the right at the right edge
\* returned without a state update.
C8_Witness ==
    /\ gameStarted
    /\ gameState = "playing"
    /\ moves > 0
    /\ playerPos.x = Level(currentLevel).size - 1
    /\ lastOp = Op("movePlayer", "right", "noMove")

\* C9: status changes from playing only to won or lost and only by a move;
\* from won or lost it changes only to playing, never to the other terminal
\* value, and only by restartLevel or nextLevel, which initialize the level
\* in the same step, or by resetGame, which ends the run (the next run starts
\* with handleStartGame's initialization).
C9_StatusTransitions ==
    [][ gameState' # gameState =>
          \/ /\ gameState = "playing"
             /\ gameState' \in {"won", "lost"}
             /\ MoveRequested
          \/ /\ gameState \in {"won", "lost"}
             /\ gameState' = "playing"
             /\ \/ /\ lastOp'.op \in {"restartLevel", "nextLevel"}
                   /\ DOMAIN visitedSquares' = {startKey(currentLevel')}
                   /\ moves' = 0
                \/ /\ lastOp'.op = "resetGame"
                   /\ ~gameStarted'
      ]_vars

\* C9 witness: a lost level has been restarted and is being played again.
C9_Witness ==
    /\ gameStarted
    /\ gameState = "playing"
    /\ lastOp.op = "restartLevel"
    /\ totalMoves > 0
    /\ currentLevel = 1

\* C10: after initializeLevel, from whatever state it was run, the VisitedMap
\* has exactly one entry, for the start cell (0, size-1), valued with the heat
\* of the start cell against the hazard set generated by this call; the
\* position is the start cell, the level move count is 0, status is playing.
C10_InitializeLevelResetsToStart ==
    lastOp.op \in InitializingOps =>
        LET level == Level(currentLevel)
        IN  /\ DOMAIN visitedSquares = {Key(0, level.size - 1)}
            /\ visitedSquares[Key(0, level.size - 1)]
                   = calculateHeat(0, level.size - 1, lavaSquares)
            /\ playerPos = [x |-> 0, y |-> level.size - 1]
            /\ moves = 0
            /\ gameState = "playing"

\* C10 witness: the second level was re-initialized by Retry Level after it
\* had been lost, with a hazard next to the start cell.
C10_Witness ==
    /\ lastOp.op = "restartLevel"
    /\ currentLevel = 1
    /\ totalMoves >= 3
    /\ visitedSquares[startKey(currentLevel)] = 1

\* The level of the post-state was initialized by this step: position and
\* single VisitedMap entry at its start cell, no level moves, status playing.
LevelInitializedByStep ==
    /\ playerPos' = [x |-> 0, y |-> Level(currentLevel').size - 1]
    /\ DOMAIN visitedSquares' = {startKey(currentLevel')}
    /\ moves' = 0
    /\ gameState' = "playing"

C12_PositionWithinGrid ==
    gameStarted =>
        /\ playerPos.x \in GridCoords(currentLevel)
        /\ playerPos.y \in GridCoords(currentLevel)

\* C12 witness: after the advance to the larger grid the player stands in its
\* bottom right corner, outside the grids of the earlier levels, and a move
\* further right has been clamped.
C12_Witness ==
    /\ gameStarted
    /\ currentLevel = FINAL_LEVEL_INDEX
    /\ playerPos = [x |-> Level(FINAL_LEVEL_INDEX).size - 1,
                    y |-> Level(FINAL_LEVEL_INDEX).size - 1]
    /\ Level(FINAL_LEVEL_INDEX).size > Level(0).size
    /\ lastOp = Op("movePlayer", "right", "noMove")

\* C13: restartLevel initializes the level of the same index again, with a
\* generated hazard set of that level, and sets the level move count to 0;
\* the level index, totalMoves and highestLevelAchieved are as before.
C13_RestartLevelFrame ==
    [][ lastOp'.op = "restartLevel" =>
          /\ currentLevel' = currentLevel
          /\ totalMoves' = totalMoves
          /\ highestLevelAchieved' = highestLevelAchieved
          /\ LevelInitializedByStep
          /\ Cardinality(lavaSquares') \in
                 Level(currentLevel).minLava .. Level(currentLevel).maxLava
          /\ \A key \in lavaSquares' :
                 \E x \in GridCoords(currentLevel), y \in GridCoords(currentLevel) :
                     key = Key(x, y)
      ]_vars

\* C13 witness: the second level was retried after a loss on it, the run
\* having won the first level before.
C13_Witness ==
    /\ lastOp.op = "restartLevel"
    /\ currentLevel = 1
    /\ highestLevelAchieved = 1
    /\ totalMoves >= 3
    /\ moves = 0

\* C14: the level index changes by +1 only, and only by nextLevel run while
\* the status is won and the index is below the final index, and that step
\* initializes the new level (no move is processed in between); nextLevel in
\* any other state changes nothing; the only other change is the reset to 0
\* by resetGame; the index is never above the final index.
C14_LevelIndexAdvance ==
    /\ [](currentLevel \in 0 .. FINAL_LEVEL_INDEX)
    /\ [][ /\ currentLevel' # currentLevel =>
                \/ /\ lastOp'.op = "nextLevel"
                   /\ gameStarted
                   /\ gameState = "won"
                   /\ currentLevel < FINAL_LEVEL_INDEX
                   /\ currentLevel' = currentLevel + 1
                   /\ LevelInitializedByStep
                \/ /\ lastOp'.op = "resetGame"
                   /\ currentLevel' = 0
           /\ ( /\ lastOp'.op = "nextLevel"
                /\ ~(gameState = "won" /\ currentLevel < FINAL_LEVEL_INDEX) ) =>
                UNCHANGED gameVars
         ]_vars

\* C14 witness: the run has just advanced to the final level.
C14_Witness ==
    /\ lastOp.op = "nextLevel"
    /\ currentLevel = FINAL_LEVEL_INDEX
    /\ gameState = "playing"
    /\ moves = 0
    /\ totalMoves > 0

\* C15: resetGame, from every state it is available in, leaves level index 0,
\* level moves 0, totalMoves 0, highestLevelAchieved 0 and status playing.
C15_ResetGameClearsRun ==
    [][ lastOp'.op = "resetGame" =>
          /\ currentLevel' = 0
          /\ moves' = 0
          /\ totalMoves' = 0
          /\ highestLevelAchieved' = 0
          /\ gameState' = "playing"
      ]_vars

\* C15 witness: the run was reset from the final level won (resetGame leaves
\* playerPos, here the target of the final level).
C15_Witness ==
    /\ lastOp.op = "resetGame"
    /\ ~gameStarted
    /\ playerPos = targetPos(FINAL_LEVEL_INDEX)
    /\ currentLevel = 0
    /\ highestLevelAchieved = 0

\* C16: a move that wins sets highestLevelAchieved to
\* max(previous, level index + 1); a move that loses on the final level sets
\* it to the catalogue length; every other move (a loss on another level
\* too), restartLevel and nextLevel leave it unchanged.
C16_HighestLevelAchieved ==
    [][ /\ MoveRequested =>
              highestLevelAchieved' =
                  IF gameState = "playing" /\ gameState' = "won"
                  THEN Max(highestLevelAchieved, currentLevel + 1)
                  ELSE IF /\ gameState = "playing"
                          /\ gameState' = "lost"
                          /\ currentLevel = FINAL_LEVEL_INDEX
                  THEN Len(levels)
                  ELSE highestLevelAchieved
        /\ lastOp'.op \in {"restartLevel", "nextLevel"} =>
              highestLevelAchieved' = highestLevelAchieved
      ]_vars

\* C16 witness: the final level was lost after the two levels before it were
\* won: the highest level is the catalogue length.
C16_Witness ==
    /\ gameStarted
    /\ currentLevel = FINAL_LEVEL_INDEX
    /\ gameState = "lost"
    /\ lastOp.ret = "lost"
    /\ highestLevelAchieved = Len(levels)

(***************************************************************************)
(* Properties of the leaderboard coordination (SpecLb)                     *)
(***************************************************************************)
\* The recordProgress calls made by this step on behalf of the function by.
RecordProgressCalls(by) ==
    {c \in BagToSet(inFlight') :
        /\ c.fn = "recordProgress"
        /\ c.by = by
        /\ CopiesIn(c, inFlight') > CopiesIn(c, inFlight)}

\* The step is a move that wins, or that loses on the final level.
ReportableOutcome ==
    /\ MoveRequested
    /\ gameState = "playing"
    /\ \/ gameState' = "won"
       \/ gameState' = "lost" /\ currentLevel = FINAL_LEVEL_INDEX

\* The recordProgress requests awaited by an evaluateOutcome.
EvaluationsInFlight == {c \in BagToSet(inFlight) : c.by = "evaluateOutcome"}

\* The requests of a handleStartGame awaiting its leaderboard calls.
StartInFlight ==
    CopiesIn(StartSessionCall, inFlight) + CopiesIn(RefreshCall, inFlight) > 0

C19_OneStartSessionPerRun ==
    /\ [](startSessionCalls <= 1)
    /\ [][ /\ (isLeaderboardConfigured /\ gameStarted' /\ ~gameStarted) =>
                startSessionCalls' = 1
           /\ startingGame =>
                CopiesIn(StartSessionCall, inFlight') <= CopiesIn(StartSessionCall, inFlight)
           /\ (CopiesIn(StartSessionCall, inFlight') > CopiesIn(StartSessionCall, inFlight))
                <=> (startSessionCalls' = startSessionCalls + 1)
         ]_vars

\* C19 witness: Start Game was triggered again while the startSession of the
\* first trigger is in flight.
C19_Witness ==
    /\ lastOp = Op("handleStartGame", "-", "starting")
    /\ CopiesIn(StartSessionCall, inFlight) = 1
    /\ startSessionCalls = 1
    /\ ~gameStarted

LavaRangesFit(table) ==
    \A i \in 1 .. Len(table) :
        /\ 0 < table[i].minLava
        /\ table[i].minLava <= table[i].maxLava
        /\ table[i].maxLava < table[i].size * table[i].size - 2

\* C27: each of the ten entries of the shipped level table satisfies
\* 0 < minLava <= maxLava < size*size - 2, and under fair random draws
\* generateLavaSquares returns, on every level of a table with that property
\* (the grids of the model, whose first levels have the largest count the
\* inequality allows).
C27_GenerateLavaSquaresTerminates ==
    /\ Len(levelsShipped) = 10
    /\ LavaRangesFit(levelsShipped)
    /\ LavaRangesFit(levels)
    /\ <>(gen.pc = "return")

\* C27 witness: the loop has returned on a level whose count is the largest
\* the inequality allows, size*size - 3.
C27_Witness ==
    /\ gen.pc = "return"
    /\ Level(gen.currentLevel).maxLava
           = Level(gen.currentLevel).size * Level(gen.currentLevel).size - 3
    /\ Cardinality(gen.newLavaSquares) = gen.lavaCount
    /\ gen.lavaCount = Level(gen.currentLevel).maxLava

\* The keys of visitedSquares that hold the loss sentinel.
LossSentinels == { key \in DOMAIN visitedSquares : visitedSquares[key] = -1 }

\* C28: in every reachable state visitedSquares holds at most one entry -1;
\* there is one exactly when the status is lost, and it is then the entry of
\* the player's position, a cell of the hazard set; every other entry is in
\* 0..8.
C28_SingleLossSentinel ==
    /\ Cardinality(LossSentinels) <= 1
    /\ (LossSentinels # {}) <=> (gameState = "lost")
    /\ \A key \in LossSentinels :
           /\ key = Key(playerPos.x, playerPos.y)
           /\ key \in lavaSquares
    /\ \A key \in (DOMAIN visitedSquares) \ LossSentinels :
           visitedSquares[key] \in 0 .. 8

\* C28 witness: a level lost after two safe cells were entered, one of them
\* with hazards around it; the map holds the sentinel next to their heats.
C28_Witness ==
    /\ gameState = "lost"
    /\ Cardinality(DOMAIN visitedSquares) >= 3
    /\ visitedSquares[Key(playerPos.x, playerPos.y)] = -1
    /\ \E key \in DOMAIN visitedSquares : visitedSquares[key] >= 2

\* The keys of the cells of a level's grid.
GridKeys(levelIndex) ==
    { Key(x, y) : x \in GridCoords(levelIndex), y \in GridCoords(levelIndex) }

\* lavaSet is a hazard set under which the current level would have produced
\* visitedSquares: it holds the cell of the sentinel and no other visited
\* cell, and every recorded heat is the heat of its cell against it.
ConsistentWithVisited(lavaSet) ==
    \A key \in DOMAIN visitedSquares :
        IF visitedSquares[key] = -1
        THEN key \in lavaSet
        ELSE /\ key \notin lavaSet
             /\ \E x \in GridCoords(currentLevel), y \in GridCoords(currentLevel) :
                    /\ key = Key(x, y)
                    /\ calculateHeat(x, y, lavaSet) = visitedSquares[key]

\* The hazard sets that hold the cell of the sentinel and no other visited
\* cell; every set consistent with visitedSquares is one of them.
HazardSetsOffVisited ==
    { LossSentinels \cup hidden :
        hidden \in SUBSET (GridKeys(currentLevel) \ DOMAIN visitedSquares) }

\* The class of every cell of the grid under the hazard set lavaSet.
RenderedGrid(lavaSet) ==
    [x \in GridCoords(currentLevel), y \in GridCoords(currentLevel) |->
        getSquareColor(x, y, Level(currentLevel).size, visitedSquares, lavaSet)]

\* C29: in a started game the class getSquareColor gives a cell that is not
\* in visitedSquares is the same whether or not the cell is in the hazard
\* set, and every hazard set consistent with visitedSquares gives every cell
\* of the grid the class the actual hazard set gives it.
C29_HazardsInvisibleUntilEntered ==
    gameStarted =>
        LET size == Level(currentLevel).size
            rendered == RenderedGrid(lavaSquares)
        IN  /\ \A x \in GridCoords(currentLevel), y \in GridCoords(currentLevel) :
                   Key(x, y) \notin DOMAIN visitedSquares =>
                       getSquareColor(x, y, size, visitedSquares,
                                      lavaSquares \cup {Key(x, y)})
                         = getSquareColor(x, y, size, visitedSquares,
                                          lavaSquares \ {Key(x, y)})
            /\ \A lavaSet \in HazardSetsOffVisited :
                   ConsistentWithVisited(lavaSet) => RenderedGrid(lavaSet) = rendered

\* C29 witness: on the largest grid, after a move, a hazard the player has
\* not entered, and another hazard set that explains the same heats.
C29_Witness ==
    /\ gameStarted
    /\ currentLevel = FINAL_LEVEL_INDEX
    /\ moves >= 1
    /\ ConsistentWithVisited(lavaSquares)
    /\ lavaSquares \ DOMAIN visitedSquares # {}
    /\ \E lavaSet \in HazardSetsOffVisited :
           /\ ConsistentWithVisited(lavaSet)
           /\ lavaSet # lavaSquares
           /\ Cardinality(lavaSet) = Cardinality(lavaSquares)

\* The classes the unit test of getHeatColor lists (gameLogic.test.ts
\* 199-207) and, for any other count, the one it expects of invalid counts.
HeatColorOfTest(adjacentLavaCount) ==
    CASE adjacentLavaCount = 0 -> "bg-white"
      [] adjacentLavaCount = 1 -> "bg-yellow-200"
      [] adjacentLavaCount = 2 -> "bg-yellow-300"
      [] adjacentLavaCount = 3 -> "bg-orange-400"
      [] adjacentLavaCount = 4 -> "bg-orange-500"
      [] adjacentLavaCount = 5 -> "bg-red-300"
      [] adjacentLavaCount = 6 -> "bg-red-600"
      [] adjacentLavaCount = 7 -> "bg-rose-600"
      [] adjacentLavaCount = 8 -> "bg-pink-500"
      [] OTHER -> "bg-white"

\* C30: getHeatColor returns, for each count 0..8, the class the unit test
\* lists for it, and bg-white for every count outside 0..8.
C30_HeatColorAsTested ==
    (call.fn = "getHeatColor" /\ call.returned) =>
        call.result = HeatColorOfTest(call.adjacentLavaCount)

\* C26: when a refresh of the leaderboard fails, the step that ends
\* refreshLeaderboard leaves the list of the hook exactly as it was.
C26_FailedRefreshKeepsList ==
    [][ \A r \in hook.pending :
            ( /\ r.by = "refreshLeaderboard"
              /\ r.response = ErrorResponse
              /\ r \notin hook'.pending )
            => hook'.leaderboard = hook.leaderboard ]_vars

\* The recordProgress call that returned last (also the one made by
\* submitIdentity), with a result.
RecordProgressReturned ==
    /\ hook.mounted
    /\ hook.returned.fn \in {"recordProgress", "submitIdentity"}
    /\ hook.returned.value # Nil

\* The score of that call is among the first ten when it is ranked with the
\* scores cached at the call, by level descending and moves ascending,
\* behind the cached scores it ties with.
RanksWithinTopTen ==
    LET r == hook.returned.request
        cache == r.closure.topTenCache
        ahead == { i \in 1 .. Len(cache) :
                     \/ cache[i].levelReached > r.payload.levelReached
                     \/ /\ cache[i].levelReached = r.payload.levelReached
                        /\ cache[i].totalMoves <= r.payload.totalMoves }
    IN  Cardinality(ahead) < TopTenSize

\* The player of that call has a name: a non-blank one in the call, or one
\* on the row of the session that the response carries.
NameAlreadySubmitted ==
    LET r == hook.returned.request
    IN  \/ r.payload.playerName \notin {"", " "}
        \/ /\ r.response.status = "ok"
           /\ r.response.session.player_name \notin {NULL, ""}

\* The place of the session's row in the leaderboard of the response; 0
\* when the response has no such row or there is no response.
RankInResponse ==
    LET r == hook.returned.request
        places == IF r.response.status = "ok"
                  THEN { i \in 1 .. Len(r.response.leaderboard) :
                           r.response.leaderboard[i].session_id = r.payload.sessionId }
                  ELSE {}
    IN  IF places = {} THEN 0 ELSE CHOOSE i \in places : TRUE

\* C24 as stated: recordProgress returns shouldPromptName = true only when
\* the score ranks within the top 10 of the cached scores and no name was
\* submitted; when the score ranks outside the top 10 it returns false with
\* a rank greater than 10.
C24_PromptOnlyInTopTenElseRankAboveTen ==
    RecordProgressReturned =>
        /\ hook.returned.value.shouldPromptName
              => RanksWithinTopTen /\ ~NameAlreadySubmitted
        /\ ~RanksWithinTopTen
              => /\ ~hook.returned.value.shouldPromptName
                 /\ hook.returned.value.rank > TopTenSize

\* C24, amended: shouldPromptName = true only when the score ranks within
\* the top 10 of the cached scores and no name was submitted; when it ranks
\* outside, recordProgress returns false, with the place of the session in
\* the leaderboard of the response when it is listed there and a rank
\* greater than 10 otherwise.
C24_PromptOnlyInTopTenElseServerRank ==
    RecordProgressReturned =>
        /\ hook.returned.value.shouldPromptName
              => RanksWithinTopTen /\ ~NameAlreadySubmitted
        /\ ~RanksWithinTopTen
              => /\ ~hook.returned.value.shouldPromptName
                 /\ IF RankInResponse > 0
                    THEN hook.returned.value.rank = RankInResponse
                    ELSE hook.returned.value.rank > TopTenSize

C24_Witness ==
    /\ RecordProgressReturned
    /\ ~RanksWithinTopTen
    /\ ~hook.returned.value.shouldPromptName
    /\ RankInResponse > 0
    /\ hook.returned.value.rank <= TopTenSize

\* The step is a call of submitIdentity: it returns at once or leaves a
\* request that submitIdentity awaits.
SubmitIdentityCalled ==
    /\ hook.mounted
    /\ hook'.calls = hook.calls + 1
    /\ \/ hook'.returned.fn = "submitIdentity"
       \/ \E r \in hook'.pending \ hook.pending : r.by = "submitIdentity"

ListedBefore(a, b) ==
    \/ a.levelReached > b.levelReached
    \/ /\ a.levelReached = b.levelReached
       /\ a.totalMoves < b.totalMoves
    \/ /\ a.levelReached = b.levelReached
       /\ a.totalMoves = b.totalMoves
       /\ a.updatedAt < b.updatedAt

\* C23: the list the hook exposes is ordered by levelReached descending,
\* totalMoves ascending and recency ascending, has at most ten entries,
\* none with an empty or null player name, and carries the ranks 1..n in
\* list order.
C23_ListOrderedCutNamedRanked ==
    hook.mounted =>
        /\ Len(hook.leaderboard) <= TopTenSize
        /\ \A i \in 1 .. Len(hook.leaderboard) :
              /\ hook.leaderboard[i].playerName \notin {NULL, ""}
              /\ hook.leaderboard[i].rank = i
              /\ \A j \in (i + 1) .. Len(hook.leaderboard) :
                    ListedBefore(hook.leaderboard[i], hook.leaderboard[j])

\* The full list with the session of the hook in it, behind an entry it
\* ties with on level and moves, while the table has more named rows than
\* the list shows.
C23_Witness ==
    /\ hook.mounted
    /\ Len(hook.leaderboard) = TopTenSize
    /\ Cardinality({ id \in DOMAIN server.game_sessions :
                       server.game_sessions[id].player_name \notin {NULL, ""} })
          > TopTenSize
    /\ \E i \in 2 .. Len(hook.leaderboard) :
          /\ hook.leaderboard[i].sessionId = hook.sessionId
          /\ hook.leaderboard[i - 1].levelReached = hook.leaderboard[i].levelReached
          /\ hook.leaderboard[i - 1].totalMoves = hook.leaderboard[i].totalMoves

\* The recordProgress calls in flight that evaluateOutcome made for the
\* completion of the level being shown as won.
UpdatesOfThisCompletion ==
    { c \in BagToSet(inFlight) :
        /\ c.by = "evaluateOutcome"
        /\ gameState = "won"
        /\ c.sessionId = sessionId
        /\ c.levelReached = currentLevel + 1
        /\ c.totalMoves = totalMoves }

\* Next Level cannot be used while an update for the completion is in flight.
AdvanceWaitsForUpdate == UpdatesOfThisCompletion # {} => ~ENABLED nextLevel

\* Next Level cannot be used while the name modal is open.
AdvanceWaitsForModal == showNameModal => ~ENABLED nextLevel

\* A step in which an update for the completion is answered and asks for a
\* name prompt leaves the name modal open.
PromptAskedIsShown ==
    ( /\ \E c \in UpdatesOfThisCompletion : CopiesIn(c, inFlight') < CopiesIn(c, inFlight)
      /\ lastOp'.op = "evaluateOutcome"
      /\ lastOp'.ret = "prompt" )
    => showNameModal'

\* C21: after a level is completed, Next Level cannot be used until the
\* leaderboard update for that completion has finished, and when that
\* update asks for a name prompt the name modal is open, and keeps Next
\* Level unusable until it is dismissed, before the next level can start.
C21_AdvanceWaitsForUpdateAndPrompt ==
    /\ [](AdvanceWaitsForUpdate /\ AdvanceWaitsForModal)
    /\ [][PromptAskedIsShown]_vars

\* What one operation of the game does to the game state, told from the
\* game state alone: a move, the start of play, Next Level, Retry Level, and
\* the reset of the run.
GameOperationEffect ==
    \/ \E direction \in DirectionValues :
          /\ gameStarted
          /\ gameState = "playing"
          /\ moveWhilePlaying(direction)
    \/ /\ ~gameStarted
       /\ gameStarted' = TRUE
       /\ currentLevel' = 0
       /\ totalMoves' = 0
       /\ highestLevelAchieved' = 0
       /\ \E newLavaSquares \in generateLavaSquares(0) :
              initializeLevel(0, newLavaSquares)
    \/ /\ gameStarted
       /\ gameState = "won"
       /\ currentLevel < FINAL_LEVEL_INDEX
       /\ currentLevel' = currentLevel + 1
       /\ \E newLavaSquares \in generateLavaSquares(currentLevel + 1) :
              initializeLevel(currentLevel + 1, newLavaSquares)
       /\ UNCHANGED <<totalMoves, gameStarted, highestLevelAchieved>>
    \/ /\ gameStarted
       /\ gameState = "lost"
       /\ currentLevel < FINAL_LEVEL_INDEX
       /\ \E newLavaSquares \in generateLavaSquares(currentLevel) :
              initializeLevel(currentLevel, newLavaSquares)
       /\ UNCHANGED <<currentLevel, totalMoves, gameStarted, highestLevelAchieved>>
    \/ /\ gameStarted
       /\ gameStarted' = FALSE
       /\ currentLevel' = 0
       /\ totalMoves' = 0
       /\ moves' = 0
       /\ highestLevelAchieved' = 0
       /\ gameState' = "playing"
       /\ visitedSquares' = EmptyMap
       /\ lavaSquares' = {}
       /\ UNCHANGED playerPos

\* A game operation can be used, or the name modal can be skipped.
GameOperationAvailable ==
    \/ ~gameStarted /\ ~startingGame
    \/ gameStarted /\ gameState = "playing"
    \/ ENABLED nextLevel
    \/ ENABLED restartLevel
    \/ ENABLED resetGame
    \/ ENABLED handleNameSkip

\* No request awaits its answer.
NothingInFlight == inFlight = EmptyBag

\* C22: every step leaves the game state alone or changes it as a game
\* operation does from the game state alone, whatever the leaderboard calls
\* answer; a pending outcome and the evaluating flag are cleared in the end;
\* a start of play waits only while one of its requests is in flight, and
\* when no request is in flight a game operation (or the Skip of the name
\* modal) is available.
C22_GameUnaffectedAndNeverStuck ==
    /\ [][UNCHANGED gameVars \/ GameOperationEffect]_vars
    /\ (pendingOutcome # NoOutcome \/ isEvaluatingLeaderboard)
           ~> (pendingOutcome = NoOutcome /\ ~isEvaluatingLeaderboard)
    /\ [](startingGame => StartInFlight)
    /\ [](NothingInFlight => GameOperationAvailable)

\* An update of the leaderboard was answered after a win and the flags are
\* cleared, with Next Level usable.
C22_Witness ==
    /\ lastOp.op = "evaluateOutcome"
    /\ gameState = "won"
    /\ pendingOutcome = NoOutcome
    /\ ~isEvaluatingLeaderboard
    /\ ~showNameModal
    /\ ENABLED nextLevel

\* The step is a call of movePlayer that changed the player's position.
PositionChangingMove == lastOp'.op = "movePlayer" /\ playerPos' # playerPos

\* The step starts a run (Start Game) or ends one (resetGame).
RunBoundary == gameStarted' # gameStarted

\* C32: the total move count is the number of position-changing moves of the
\* run: it is 0 when a run starts or is left, a move that changes the position
\* adds exactly one to it, and no other step (a move that changes nothing,
\* nextLevel, restartLevel) changes it; so the level move count, which the
\* same moves advance and every level initialization clears, never exceeds it.
C32_TotalMovesCountsPositionChanges ==
    /\ [](moves <= totalMoves)
    /\ [][ totalMoves' = IF RunBoundary THEN 0
                         ELSE IF PositionChangingMove THEN totalMoves + 1
                         ELSE totalMoves ]_vars

\* C32 witness: a move has just changed the position on a later level
\* attempt, so that the total exceeds the level's count.
C32_Witness ==
    /\ lastOp.op = "movePlayer"
    /\ lastOp.ret \in {"heat", "won", "lost"}
    /\ moves >= 1
    /\ totalMoves > moves
    /\ currentLevel >= 1

\* The key of the cell the player is on.
playerKey == Key(playerPos.x, playerPos.y)

\* C39: in a started game, whose level the starting handler has initialized,
\* status is lost exactly when the player's cell is in the hazard set, won
\* exactly when the player is on the target cell of the level, and while
\* status is playing the player's cell is neither a hazard nor the target and
\* has an entry in the VisitedMap.
C39_StatusMatchesPlayerCell ==
    gameStarted =>
        /\ gameState = "lost" <=> playerKey \in lavaSquares
        /\ gameState = "won" <=> playerPos = targetPos(currentLevel)
        /\ gameState = "playing" =>
               /\ playerKey \notin lavaSquares
               /\ playerPos # targetPos(currentLevel)
               /\ playerKey \in DOMAIN visitedSquares

\* C39 witness: on the last level, with more than one hazard, the player is
\* still playing on a cell other than the start that a move has just recorded.
C39_Witness ==
    /\ gameStarted
    /\ currentLevel = FINAL_LEVEL_INDEX
    /\ Cardinality(lavaSquares) >= 2
    /\ gameState = "playing"
    /\ lastOp.ret = "heat"
    /\ playerKey # startKey(currentLevel)
    /\ moves >= 2

\* What isValidMove returns for the player's position on the current grid.
validatorResult(direction) ==
    isValidMove(playerPos, direction, Level(currentLevel).size)

\* C33: the destination that movePlayer computes inline (lines 124-141) is
\* the newPos isValidMove returns for the same position, direction and grid
\* size, and movePlayer goes past its return of line 143 (moves the player
\* there and counts the move) exactly when isValidMove returns valid = true.
C33_MovePlayerAgreesWithIsValidMove ==
    /\ [](gameStarted =>
             \A direction \in Directions :
                 moveDestination(direction) = validatorResult(direction).newPos)
    /\ [][ (MoveRequested /\ gameState = "playing") =>
              /\ playerPos' = validatorResult(lastOp'.dir).newPos
              /\ validatorResult(lastOp'.dir).valid <=> lastOp'.ret # "noMove"
              /\ validatorResult(lastOp'.dir).valid <=> moves' = moves + 1
         ]_vars

\* C33 witness: a move to the right from the right-hand column, below the
\* target, has just been absorbed after earlier moves that were not.
C33_Witness ==
    /\ gameStarted
    /\ gameState = "playing"
    /\ lastOp = Op("movePlayer", "right", "noMove")
    /\ playerPos.x = Level(currentLevel).size - 1
    /\ playerPos.y > 0
    /\ moves >= 1
    /\ ~validatorResult("right").valid

\* The cells one effective move away from cell on the grid of the level.
MoveNeighbours(cell, levelIndex) ==
    { isValidMove(cell, direction, Level(levelIndex).size).newPos :
          direction \in Directions } \ {cell}

\* Breadth-first search over effective moves through non-hazard cells: frontier
\* holds the cells first reached after n moves, seen those reached so far.
RECURSIVE SearchTarget(_, _, _, _, _)
SearchTarget(n, frontier, seen, lavaSet, levelIndex) ==
    IF targetPos(levelIndex) \in frontier THEN n
    ELSE IF frontier = {} THEN -1
    ELSE SearchTarget(n + 1,
                      { c \in UNION { MoveNeighbours(w, levelIndex) : w \in frontier } :
                            c \notin seen /\ Key(c.x, c.y) \notin lavaSet },
                      seen \cup UNION { MoveNeighbours(w, levelIndex) : w \in frontier },
                      lavaSet, levelIndex)

\* The least number of moves through non-hazard cells that takes the player
\* from cell to the target, or -1 when no such sequence of moves exists.
MovesToTarget(cell, lavaSet, levelIndex) ==
    SearchTarget(0, {cell}, {cell}, lavaSet, levelIndex)

\* MovesToTarget from the player's position in the current state.
movesLeft == MovesToTarget(playerPos, lavaSquares, currentLevel)

\* A level has just been initialized.
LevelJustInitialized ==
    gameStarted /\ lastOp.op \in InitializingOps /\ gameState = "playing"

\* C38 as claimed: right after every level initialization some sequence of
\* moves through non-hazard cells leads to status won.
C38_EveryLevelWinnable ==
    LevelJustInitialized => movesLeft >= 0

\* C38: right after a level initialization neither the start nor the target
\* is a hazard; a sequence of moves through non-hazard cells that leads to
\* won exists exactly when the hazard set leaves a path of adjacent non-hazard
\* cells from the player's cell to the target. While there is such a path
\* some move takes the player a cell nearer to the target (or wins); while
\* there is none no move wins and none creates one.
C38_WinnableExactlyWhenPathLeft ==
    /\ [](LevelJustInitialized =>
              /\ startKey(currentLevel) \notin lavaSquares
              /\ Key(targetPos(currentLevel).x, targetPos(currentLevel).y) \notin lavaSquares)
    /\ []((gameStarted /\ gameState = "playing" /\ movesLeft >= 0
             /\ totalMoves < MaxTotalMoves) =>
              \E direction \in Directions :
                  ENABLED ( /\ movePlayer(direction)
                            /\ \/ gameState' = "won" /\ movesLeft = 1
                               \/ gameState' = "playing" /\ movesLeft' = movesLeft - 1 ))
    /\ [][ (MoveRequested /\ gameState = "playing" /\ movesLeft < 0) =>
               /\ gameState' # "won"
               /\ gameState' = "playing" => movesLeft' < 0 ]_vars

\* C38 witness: a level has just been initialized with a hazard on each of
\* the two cells next to the start, so that no move leaves the start alive.
C38_Witness ==
    /\ LevelJustInitialized
    /\ movesLeft < 0
    /\ \A c \in MoveNeighbours(playerPos, currentLevel) : Key(c.x, c.y) \in lavaSquares

\* The step is a call of onSubmit.
OnSubmitCalled ==
    modal'.mounted /\ modal'.onSubmit.called /\ modal'.onSubmit # modal.onSubmit

\* C31: whatever was typed, the name passed to onSubmit holds only letters,
\* digits, underscores, spaces and hyphens, starts and ends with none of the
\* white-space characters and is not empty; and onSubmit is not called while
\* the trimmed name is empty or a save is in progress.
C31_SubmittedNameIsSanitized ==
    /\ []((modal.mounted /\ modal.onSubmit.called) =>
              LET name == modal.onSubmit.name
              IN  /\ \A i \in 1 .. Len(name) : name[i] \in {"a", "1", "_", " ", "-"}
                  /\ Len(name) > 0
                  /\ name[1] \notin WhiteSpace
                  /\ name[Len(name)] \notin WhiteSpace)
    /\ [][ OnSubmitCalled =>
               ~modal.isSaving /\ Len(modalTrim(modal.name)) > 0 ]_vars

\* The calls of fn made so far by the invocation of fetchWithRetry.
fnCalls == Len(call.outcomes)

\* C34: fetchWithRetry with maxRetries >= 1 calls fn at most maxRetries
\* times; only the last call made can have resolved, and then its value is
\* what is returned; it throws only after maxRetries rejected calls, the
\* error of the last of them, from inside the loop; a wait goes only between
\* two consecutive calls (none after the last one), the first wait has the base
\* delay and each further one twice the delay before it; and the throw after
\* the loop is never reached.
C34_FetchWithRetryAttemptsAndWaits ==
    (call.fn = "fetchWithRetry" /\ call.maxRetries >= 1) =>
        /\ fnCalls <= call.maxRetries
        /\ \A i \in 1 .. (fnCalls - 1) : call.outcomes[i] = "rejected"
        /\ call.pc = "returned" =>
               /\ call.outcomes[fnCalls] = "resolved"
               /\ call.result = fnCalls
        /\ call.pc = "thrown" =>
               /\ fnCalls = call.maxRetries
               /\ call.outcomes[fnCalls] = "rejected"
               /\ call.result = call.maxRetries
               /\ ~call.afterLoop
        /\ Len(call.waits) = IF call.pc \in {"for", "try", "waiting"}
                             THEN fnCalls ELSE fnCalls - 1
        /\ Len(call.waits) <= call.maxRetries - 1
        /\ \A i \in 1 .. Len(call.waits) :
               /\ call.waits[i].delay = IF i = 1 THEN call.baseDelay
                                        ELSE 2 * call.waits[i - 1].delay
               /\ 10 * call.waits[i].timeout >= 9 * call.waits[i].delay
               /\ 10 * call.waits[i].timeout < 11 * call.waits[i].delay
        /\ call.pc # "afterLoop"

\* C34 witness: three calls of fn were made, with two waits between them, and
\* the third error has been rethrown.
C34_Witness ==
    /\ call.fn = "fetchWithRetry"
    /\ call.maxRetries = 3
    /\ call.pc = "thrown"
    /\ fnCalls = 3
    /\ Len(call.waits) = 2
    /\ call.waits[2].delay = 2000

\* The update-score requests that this step sends.
ScoresSent ==
    IF hook.mounted /\ hook'.mounted
    THEN { r \in hook'.pending \ hook.pending : r.fn = "update-score" }
    ELSE {}

\* C35: a run begins with a call of startNewSession; every score sent during
\* the run carries the session id which that call returned, so that nothing
\* is sent under the id of an earlier run, in particular when that call
\* returned no id.
C35_ScoresSentUnderOwnSession ==
    [][ \A r \in ScoresSent : r.payload.sessionId = hook.startedSession ]_vars

\* The recordProgress calls that this step makes from evaluateOutcome, each
\* counted as often as it is made.
EvaluationsStarted ==
    LET calls == RecordProgressCalls("evaluateOutcome")
        Times(c) == CopiesIn(c, inFlight') - CopiesIn(c, inFlight)
        RECURSIVE Sum(_)
        Sum(S) == IF S = {} THEN 0
                  ELSE LET c == CHOOSE x \in S : TRUE
                       IN  Times(c) + Sum(S \ {c})
    IN  Sum(calls)

\* C36: an outcome that is reported (a win, or a loss on the final level,
\* in a configured build with a session) gets exactly one recordProgress
\* call: the step of the move that produces it makes one call, and no step
\* makes a call for an outcome that was already pending, whichever
\* dependency of the effect changes while it is.
C36_OneRecordProgressPerOutcome ==
    [][ /\ EvaluationsStarted <= 1
        /\ EvaluationsStarted = 1 =>
               pendingOutcome = NoOutcome /\ pendingOutcome' # NoOutcome
        /\ (ReportableOutcome /\ isLeaderboardConfigured /\ sessionId # NoSession) =>
               EvaluationsStarted = 1
      ]_vars

\* C37: the level_reached stored for a session never decreases, whatever
\* update-score requests are processed for it and however their selects and
\* updates interleave.
C37_LevelReachedNeverDecreases ==
    [][ \A id \in DOMAIN server.game_sessions :
            server'.game_sessions[id].level_reached >=
                server.game_sessions[id].level_reached ]_vars

====
